---- MODULE Spec2Model ----
(***************************************************************************)
(* Repayment planning and execution engine of the VALR loan monitor.       *)
(*                                                                         *)
(* Money is counted in whole rand, time in whole days (day 0 = 1 January); *)
(* an annual interest rate is held in percent.  A repayment cycle is an    *)
(* async function: one action of the model is the code that runs between   *)
(* two awaits, so cycles started by different triggers interleave only at  *)
(* the awaits, as they do on the Node.js event loop.                       *)
(***************************************************************************)
EXTENDS Integers, Sequences, FiniteSets, TLC

VARIABLES
    configFile,      \* the document at FriendsFamilyLoanManager.configPath
    lastLoad,        \* the document read by the latest loadLoans, and loans before it
    loans,           \* FriendsFamilyLoanManager.loans (active obligations)
    config,          \* RepaymentConfig: minimumZARReserve, dryRun
    metricsLoans,    \* LoanMonitor.metrics.loans (sequence of currencies)
    metricsAprs,     \* LoanMonitor.metrics.effectiveAPRByLoan
    metrics,         \* LoanMonitor.metrics: loans, collateral, totalPaymentsByCurrency
    transactions,    \* table transactions
    paymentIgnoreTransferIds,  \* LoanMonitor.config.paymentIgnoreTransferIds
    principalBalances,         \* the balances the exchange holds for the account
    ffPayments,      \* table ff_payments
    executions,      \* table repayment_executions
    valrRepayments,  \* table valr_loan_repayments
    now,             \* wall clock, in days
    pc,              \* per trigger: position of its executeRepaymentCycle call
    plan,            \* per trigger: the RepaymentPlan of the running cycle
    idx,             \* per trigger: index of the action being executed
    result,          \* per trigger: result object of executeRepaymentPlan
    ret,             \* per trigger: result object of executeRepaymentCycle
    executionId,     \* per trigger: row id returned by the provisional write
    tradeResult,     \* per trigger: TradeResult of the current action
    buys,            \* per trigger, per action: buyWithZAR invocations
    xfers,           \* per trigger, per action: transfer invocations
    execWrites,      \* per trigger: execution rows written by the running cycle
    started,         \* number of cycles started so far
    exchangeCalls,   \* state-changing exchange calls issued by cycles so far
    fetchPc,         \* position of the fetchTransactionsWithPagination call
    startTime,       \* its argument: the latest stored event time, if any
    skip,            \* its local skip
    hasMore,         \* its local hasMore
    totalFetched,    \* its local totalFetched
    newTransactionsStored,     \* its local newTransactionsStored
    pageRequests,    \* getTransactionHistory calls issued by the running sync
    response,        \* the latest answer of the HTTP API
    faults           \* number of failed ledger calls so far

ledger == <<ffPayments, executions, valrRepayments>>
cycle  == <<pc, plan, idx, result, ret, executionId, tradeResult>>
ghost  == <<buys, xfers, execWrites, started>>
env    == <<loans, config, metricsLoans, metricsAprs, now>>
source == <<configFile, lastLoad>>
sync   == <<fetchPc, startTime, skip, hasMore, totalFetched, newTransactionsStored,
           pageRequests>>
stored  == <<transactions, paymentIgnoreTransferIds, principalBalances>>
monitor == <<metrics, transactions, paymentIgnoreTransferIds, principalBalances>>
vars   == <<configFile, lastLoad, metrics, transactions, paymentIgnoreTransferIds,
           principalBalances, loans, config, metricsLoans, metricsAprs, ffPayments, executions,
           valrRepayments, now, pc, plan, idx, result, ret, executionId,
           tradeResult, buys, xfers, execWrites, started, exchangeCalls, faults,
           fetchPc, startTime, skip, hasMore, totalFetched, newTransactionsStored,
           pageRequests, response>>

(***************************************************************************)
(* Bounds of the model.                                                    *)
(***************************************************************************)
MaxCycles == 2
MaxDay == 40
MaxFaults == 1

Procs == {"timer", "manual"}

(***************************************************************************)
(* Calendar: first days of the months around day 0.                        *)
(***************************************************************************)
MonthStarts == {0 - 61, 0 - 31, 0, 31, 59, 90}

MonthStart(d) ==
    CHOOSE m \in MonthStarts :
        /\ m <= d
        /\ \A k \in MonthStarts : k <= d => k <= m

DueAfterDays == 30

(***************************************************************************)
(* Obligation registry.                                                    *)
(***************************************************************************)
Null == [none |-> TRUE]

calculateMonthlyInterest(loan) == (loan.principal * loan.ratePct) \div 1200

LoanIndex(lns, loanId) ==
    {i \in 1..Len(lns) : lns[i].id = loanId}

\* getLoan: the first loan with the identifier, Null when there is none
getLoan(lns, loanId) ==
    IF LoanIndex(lns, loanId) = {}
    THEN Null
    ELSE lns[CHOOSE i \in LoanIndex(lns, loanId) :
                 \A j \in LoanIndex(lns, loanId) : i <= j]

PaymentDates(table, loanId) ==
    {table[i].paymentDate : i \in {j \in 1..Len(table) : table[j].loanId = loanId}}

\* ORDER BY payment_date DESC LIMIT 1
getFFLastPaymentDate(table, loanId) ==
    IF PaymentDates(table, loanId) = {}
    THEN Null
    ELSE [none |-> FALSE,
          date |-> CHOOSE d \in PaymentDates(table, loanId) :
                       \A e \in PaymentDates(table, loanId) : e <= d]

\* the query without its payment_date condition on the current month
getFFPaymentsThisMonth_NoneFound(table, loanId, t) ==
    SelectSeq(table, LAMBDA r : FALSE)

\* WHERE loan_id = ? AND payment_date >= monthStart
getFFPaymentsThisMonth(table, loanId, t) ==
    SelectSeq(table, LAMBDA r : r.loanId = loanId /\ r.paymentDate >= MonthStart(t))
isDue_CalendarMonthOnly(loan, table, t) ==
    LET lastPaymentDate == getFFLastPaymentDate(table, loan.id)
        paymentsThisMonth == getFFPaymentsThisMonth(table, loan.id, t)
    IN  IF lastPaymentDate.none
        THEN t - loan.startDate >= DueAfterDays
        ELSE Len(paymentsThisMonth) = 0
isDue_WheneverPaid(loan, table, t) ==
    LET lastPaymentDate == getFFLastPaymentDate(table, loan.id)
    IN  IF lastPaymentDate.none
        THEN t - loan.startDate >= DueAfterDays
        ELSE TRUE

isDue(loan, table, t) ==
    LET lastPaymentDate == getFFLastPaymentDate(table, loan.id)
        paymentsThisMonth == getFFPaymentsThisMonth(table, loan.id, t)
    IN  IF lastPaymentDate.none
        THEN t - loan.startDate >= DueAfterDays
        ELSE IF Len(paymentsThisMonth) = 0
             THEN TRUE
             ELSE t - lastPaymentDate.date >= DueAfterDays

DuePayment(loan, t) ==
    [loanId |-> loan.id,
     paymentDate |-> t,
     amountZAR |-> calculateMonthlyInterest(loan),
     cryptoCurrency |-> loan.cryptoPreference,
     cryptoAmount |-> 0,
     type |-> "INTEREST"]

\* no obligation is ever reported
getPaymentsDueThisMonth_NoneDue(lns, table, t) == <<>>

RECURSIVE getPaymentsDueThisMonth(_, _, _)
getPaymentsDueThisMonth(lns, table, t) ==
    IF lns = <<>>
    THEN <<>>
    ELSE LET rest == getPaymentsDueThisMonth(Tail(lns), table, t)
         IN  IF isDue(Head(lns), table, t)
             THEN <<DuePayment(Head(lns), t)>> \o rest
             ELSE rest

(***************************************************************************)
(* Repayment planner.                                                      *)
(***************************************************************************)
RECURSIVE SumZAR(_)
SumZAR(actions) ==
    IF actions = <<>> THEN 0 ELSE Head(actions).amountInZAR + SumZAR(Tail(actions))

UsableZAR_NoReserve(availableZAR, reserve) == availableZAR

UsableZAR(availableZAR, reserve) == availableZAR - reserve
NothingUsable_Strict(usableZAR) == usableZAR < 0

\* if (usableZAR <= 0): nothing is left above the reserve
NothingUsable(usableZAR) == usableZAR <= 0

InsufficientForFF_Never(usableZAR, ffTotalNeeded) == FALSE

InsufficientForFF(usableZAR, ffTotalNeeded) == usableZAR < ffTotalNeeded

RemainingZAR_KeepOne(usableZAR, ffTotalNeeded) == usableZAR - ffTotalNeeded - 1

RemainingZAR(usableZAR, ffTotalNeeded) == usableZAR - ffTotalNeeded

\* aprs[loan.currency] || 0
AprOf(aprs, currency) ==
    IF currency \in DOMAIN aprs THEN aprs[currency] ELSE 0

\* Array.prototype.sort is stable: an element goes behind its equals
InsertByApr_Ascending(sorted, x) ==
    LET k == Cardinality({i \in 1..Len(sorted) : sorted[i].apr <= x.apr})
    IN  SubSeq(sorted, 1, k) \o <<x>> \o SubSeq(sorted, k + 1, Len(sorted))

InsertByApr(sorted, x) ==
    LET k == Cardinality({i \in 1..Len(sorted) : sorted[i].apr >= x.apr})
    IN  SubSeq(sorted, 1, k) \o <<x>> \o SubSeq(sorted, k + 1, Len(sorted))

RECURSIVE SortedLoans(_, _)
SortedLoans(mLoans, aprs) ==
    IF mLoans = <<>>
    THEN <<>>
    ELSE InsertByApr(SortedLoans(SubSeq(mLoans, 1, Len(mLoans) - 1), aprs),
                     [currency |-> mLoans[Len(mLoans)],
                      apr |-> AprOf(aprs, mLoans[Len(mLoans)])])
InsertByPriority_Unstable(sorted, x) ==
    LET k == Cardinality({i \in 1..Len(sorted) : sorted[i].priority < x.priority})
    IN  SubSeq(sorted, 1, k) \o <<x>> \o SubSeq(sorted, k + 1, Len(sorted))

InsertByPriority(sorted, x) ==
    LET k == Cardinality({i \in 1..Len(sorted) : sorted[i].priority <= x.priority})
    IN  SubSeq(sorted, 1, k) \o <<x>> \o SubSeq(sorted, k + 1, Len(sorted))

RECURSIVE SortByPriority(_)
SortByPriority(actions) ==
    IF actions = <<>>
    THEN <<>>
    ELSE InsertByPriority(SortByPriority(SubSeq(actions, 1, Len(actions) - 1)),
                          actions[Len(actions)])

FFAction(lns, payment) ==
    LET loan == getLoan(lns, payment.loanId)
    IN  [priority |-> 1,
         type |-> "FRIENDS_FAMILY",
         loanIdentifier |-> loan.id,
         currency |-> payment.cryptoCurrency,
         amountInZAR |-> payment.amountZAR,
         apr |-> 0,
         recipientType |-> loan.recipient.type,
         recipientValue |-> loan.recipient.value,
         recipientName |-> loan.name]

RECURSIVE FFActions(_, _)
FFActions(lns, ffDue) ==
    IF ffDue = <<>>
    THEN <<>>
    ELSE IF getLoan(lns, Head(ffDue).loanId) = Null
         THEN FFActions(lns, Tail(ffDue))
         ELSE <<FFAction(lns, Head(ffDue))>> \o FFActions(lns, Tail(ffDue))

VALRAction(highestAPRLoan, remainingZAR) ==
    [priority |-> 2,
     type |-> "VALR_LOAN",
     loanIdentifier |-> highestAPRLoan.currency,
     currency |-> highestAPRLoan.currency,
     amountInZAR |-> remainingZAR,
     apr |-> highestAPRLoan.apr,
     recipientType |-> "none",
     recipientValue |-> "none",
     recipientName |-> "none"]

buildRepaymentPlan(availableZAR, reserve, lns, table, t, mLoans, aprs) ==
    LET usableZAR == UsableZAR(availableZAR, reserve)
        ffActions == FFActions(lns, getPaymentsDueThisMonth(lns, table, t))
        ffTotalNeeded == SumZAR(ffActions)
        remainingZAR == RemainingZAR(usableZAR, ffTotalNeeded)
        sortedLoans == SortedLoans(mLoans, aprs)
        actions == IF remainingZAR > 0 /\ Len(sortedLoans) > 0
                   THEN ffActions \o <<VALRAction(sortedLoans[1], remainingZAR)>>
                   ELSE ffActions
    IN  IF NothingUsable(usableZAR)
        THEN [totalZARAvailable |-> availableZAR,
              totalZARNeeded |-> 0,
              canExecute |-> FALSE,
              payments |-> <<>>,
              skippedReason |-> "Insufficient ZAR after reserve"]
        ELSE IF InsufficientForFF(usableZAR, ffTotalNeeded)
        THEN [totalZARAvailable |-> availableZAR,
              totalZARNeeded |-> ffTotalNeeded,
              canExecute |-> FALSE,
              payments |-> ffActions,
              skippedReason |-> "Insufficient ZAR for F&F payments"]
        ELSE [totalZARAvailable |-> availableZAR,
              totalZARNeeded |-> ffTotalNeeded
                                 + (IF remainingZAR > 0 THEN remainingZAR ELSE 0),
              canExecute |-> TRUE,
              payments |-> SortByPriority(actions),
              skippedReason |-> "none"]

NoPlan == [totalZARAvailable |-> 0, totalZARNeeded |-> 0, canExecute |-> FALSE,
           payments |-> <<>>, skippedReason |-> "no plan"]

(***************************************************************************)
(* Result objects and ledger rows.                                         *)
(***************************************************************************)
NewResult(t, nPlanned) ==
    [success |-> TRUE,
     timestamp |-> t,
     dryRun |-> config.dryRun,
     actionsPlanned |-> nPlanned,
     actionsExecuted |-> 0,
     errors |-> <<>>,
     totalZARSpent |-> 0,
     breakdown |-> [friendsFamilyPayments |-> 0, valrLoanPayments |-> 0]]

ErrorEntry(who, msg) == [loanIdentifier |-> who, message |-> msg]
ActionFailed_KeepSuccess(res, action, msg) ==
    [res EXCEPT !.errors = Append(@, ErrorEntry(action.loanIdentifier, msg))]

\* catch in the action loop of executeRepaymentPlan
ActionFailed(res, action, msg) ==
    [res EXCEPT !.success = FALSE,
                !.errors = Append(@, ErrorEntry(action.loanIdentifier, msg))]
ActionCompleted_CountTwice(res, action) ==
    [res EXCEPT !.actionsExecuted = @ + 2, !.totalZARSpent = @ + action.amountInZAR]

\* the statements after payFriendsFamily / payVALRLoan returned normally
ActionCompleted(res, action) ==
    [res EXCEPT !.actionsExecuted = @ + 1,
                !.totalZARSpent = @ + action.amountInZAR,
                !.breakdown.friendsFamilyPayments =
                    IF action.type = "FRIENDS_FAMILY" THEN @ + 1 ELSE @,
                !.breakdown.valrLoanPayments =
                    IF action.type = "FRIENDS_FAMILY" THEN @ ELSE @ + 1]

\* catch of executeRepaymentCycle
CycleFailed(r, msg) ==
    [r EXCEPT !.success = FALSE,
              !.errors = Append(@, ErrorEntry("cycle", msg))]

\* executeRepaymentCycle copies the fields of the plan execution's result
CycleUpdated(r, res) ==
    [r EXCEPT !.actionsExecuted = res.actionsExecuted,
              !.errors = res.errors,
              !.totalZARSpent = res.totalZARSpent,
              !.breakdown = res.breakdown,
              !.success = res.success]
SkipRow_Failure(r, pl) ==
    [executionDate |-> r.timestamp,
     actionsPlanned |-> r.actionsPlanned,
     actionsExecuted |-> 0,
     totalZARSpent |-> 0,
     ffPaymentsCount |-> 0,
     valrPaymentsCount |-> 0,
     success |-> FALSE,
     errors |-> <<>>]

SkipRow(r, pl) ==
    [executionDate |-> r.timestamp,
     actionsPlanned |-> r.actionsPlanned,
     actionsExecuted |-> 0,
     totalZARSpent |-> 0,
     ffPaymentsCount |-> 0,
     valrPaymentsCount |-> 0,
     success |-> TRUE,
     errors |-> <<ErrorEntry("cycle", pl.skippedReason)>>]

ProvisionalRow(t, pl) ==
    [executionDate |-> t,
     actionsPlanned |-> Len(pl.payments),
     actionsExecuted |-> 0,
     totalZARSpent |-> 0,
     ffPaymentsCount |-> 0,
     valrPaymentsCount |-> 0,
     success |-> FALSE,
     errors |-> <<>>]

TerminalRow(res) ==
    [executionDate |-> res.timestamp,
     actionsPlanned |-> res.actionsPlanned,
     actionsExecuted |-> res.actionsExecuted,
     totalZARSpent |-> res.totalZARSpent,
     ffPaymentsCount |-> res.breakdown.friendsFamilyPayments,
     valrPaymentsCount |-> res.breakdown.valrLoanPayments,
     success |-> res.success,
     errors |-> res.errors]

\* INSERT INTO repayment_executions: every call adds a row
recordRepaymentExecution(table, row) == Append(table, row)

\* INSERT INTO ff_payments
recordFFPayment(table, payment) == Append(table, payment)

\* INSERT INTO valr_loan_repayments
recordVALRRepayment(table, repayment) == Append(table, repayment)

FFPaymentRow(action, trade, transferId, t) ==
    [loanId |-> action.loanIdentifier,
     paymentDate |-> t,
     amountZAR |-> trade.zarSpent,
     cryptoCurrency |-> action.currency,
     cryptoAmount |-> trade.cryptoReceived,
     transferId |-> transferId,
     type |-> "INTEREST"]

VALRRepaymentRow(action, trade, transferId, execId) ==
    [executionId |-> execId,
     currency |-> action.currency,
     amount |-> trade.cryptoReceived,
     amountZAR |-> trade.zarSpent,
     transferId |-> transferId]

NoTrade == [success |-> FALSE, cryptoReceived |-> 0, zarSpent |-> 0, price |-> 0]

Counts(n) == [i \in 1..n |-> 0]

(***************************************************************************)
(* Inputs of the model: obligations, balances, metrics, exchange answers.  *)
(***************************************************************************)
LoanA ==
    [id |-> "A", name |-> "Ann", principal |-> 12000, ratePct |-> 12,
     startDate |-> 0 - 30, cryptoPreference |-> "USDC", active |-> TRUE,
     recipient |-> [type |-> "email", value |-> "ann@example.org"]]

LoanB ==
    [id |-> "B", name |-> "Bob", principal |-> 6000, ratePct |-> 12,
     startDate |-> 0 - 45, cryptoPreference |-> "BTC", active |-> TRUE,
     recipient |-> [type |-> "cellNumber", value |-> "+27820000000"]]

\* a loan that starts on day 0: its first payment is due on day 30
LoanLate == [LoanB EXCEPT !.startDate = 0]

\* an interest-free loan: validateLoan accepts interestRate 0
LoanFree == [LoanB EXCEPT !.id = "F", !.name = "Fay", !.ratePct = 0]

Registries == {<<LoanA>>}

Reserves == {50}

\* getBalance('ZAR'): a total, or a failed request
BalanceReads ==
    {[ok |-> FALSE, total |-> 0]}
        \cup {[ok |-> TRUE, total |-> b] : b \in {100, 500}}

\* a failed read taken for a funded account
getAvailableZAR_AssumeFunded(read) == IF read.ok THEN read.total ELSE 500

\* getAvailableZAR: a failed read counts as 0
getAvailableZAR(read) == IF read.ok THEN read.total ELSE 0

MetricsAprMaps == {("BTC" :> 5) @@ ("ETH" :> 9)}

Prices == {10}

Slippages == {1}

TickSteps == {20}

\* the message of an exception raised by a call to the exchange
ExchangeError == "exchange error"

\* an exception that leaves a service method instead of a result
Thrown(msg) == [success |-> FALSE, thrown |-> TRUE, error |-> msg]

\* the catch of buyWithZAR
FailedTrade(msg) ==
    [success |-> FALSE, cryptoReceived |-> 0, zarSpent |-> 0, price |-> 0, error |-> msg]

\* what the exchange does with the calls of one buyWithZAR: each of the price
\* lookup, the market order and the order status query returns or throws
ExchangeAnswers ==
    [priceOk : BOOLEAN, price : Prices, orderOk : BOOLEAN, statusOk : BOOLEAN,
     slippage : Slippages]

buyWithZAR_Uncaught(zarAmount, ex) ==
    IF ~ex.priceOk \/ (~config.dryRun /\ (~ex.orderOk \/ ~ex.statusOk))
    THEN Thrown(ExchangeError)
    ELSE [success |-> TRUE, cryptoReceived |-> zarAmount \div ex.price,
          zarSpent |-> zarAmount, price |-> ex.price]

buyWithZAR(zarAmount, ex) ==
    IF ~ex.priceOk
    THEN FailedTrade(ExchangeError)
    ELSE IF config.dryRun
    THEN [success |-> TRUE, cryptoReceived |-> zarAmount \div ex.price,
          zarSpent |-> zarAmount, price |-> ex.price]
    ELSE IF ~ex.orderOk \/ ~ex.statusOk
    THEN FailedTrade(ExchangeError)
    ELSE [success |-> TRUE, cryptoReceived |-> (zarAmount - ex.slippage) \div ex.price,
          zarSpent |-> zarAmount - ex.slippage, price |-> ex.price]

\* the exchange answers possible for an amount: a fill never exceeds the order
TradeAnswers(zarAmount) == {e \in ExchangeAnswers : e.slippage <= zarAmount}

\* the results buyWithZAR can return for an amount in the current mode
TradeResults(zarAmount) == {buyWithZAR(zarAmount, ex) : ex \in TradeAnswers(zarAmount)}

OrdersPlaced_IgnoresDryRun(ex) == IF ex.priceOk THEN {"placeMarketOrder"} ELSE {}

\* the orders buyWithZAR places: placeMarketOrder is reached after the price
\* lookup, and only past the dry-run return
OrdersPlaced(ex) ==
    IF ex.priceOk /\ ~config.dryRun THEN {"placeMarketOrder"} ELSE {}

\* the message the catch of the action loop sees: that of the Error thrown on
\* a failed result, or that of an exception raised inside the service
ThrownMessage(r, what) == IF "thrown" \in DOMAIN r THEN r.error ELSE what

TradeFailed_Unchecked(tr) == FALSE

\* if (!tradeResult.success) throw new Error(`Trade failed: ...`)
TradeFailed(tr) == ~tr.success

NoTransferId == <<>>

\* the catch of transferToLoanAccount and of transferToFriendsFamily
FailedTransfer(msg) == [success |-> FALSE, transferId |-> NoTransferId, error |-> msg]

\* transferBetweenAccounts returns or throws
TransferAnswers == [ok : BOOLEAN]

transferToLoanAccount(ex) ==
    IF config.dryRun
    THEN [success |-> TRUE, transferId |-> <<"dry-run-transfer-id">>]
    ELSE IF ex.ok
    THEN [success |-> TRUE, transferId |-> <<"transfer">>]
    ELSE FailedTransfer(ExchangeError)

transferToFriendsFamily(recipientName, ex) ==
    IF config.dryRun
    THEN [success |-> TRUE, transferId |-> <<"dry-run-ff-transfer", recipientName>>]
    ELSE IF ex.ok
    THEN [success |-> TRUE, transferId |-> <<"transfer">>]
    ELSE FailedTransfer(ExchangeError)

\* the transfers issued on the exchange: transferBetweenAccounts is reached
\* only past the dry-run return
TransfersIssued(ex) == IF config.dryRun THEN {} ELSE {"transferBetweenAccounts"}

\* the transfer service called for an action
TransferOf(action, ex) ==
    IF action.type = "FRIENDS_FAMILY"
    THEN transferToFriendsFamily(action.recipientName, ex)
    ELSE transferToLoanAccount(ex)

TransferResults_NeverAnswers(action) == {}

\* the results the transfer of an action can return in the current mode
TransferResults(action) == {TransferOf(action, ex) : ex \in TransferAnswers}

TransferFailed_Unchecked(xr) == FALSE

\* if (!transferResult.success) throw new Error(`Transfer failed: ...`)
TransferFailed(xr) == ~xr.success

(***************************************************************************)
(* The obligation document and loadLoans.  A JSON value that the code      *)
(* compares as a number is kept as the document has it: a number or a      *)
(* text; a start date is an ISO text, written as its day, or another text. *)
(***************************************************************************)
Num(n) == [num |-> n]

Str(s) == [str |-> s]

\* the relational operators convert a text that is not numeric to NaN, and
\* every comparison with NaN is false
IsNaN(v) == "num" \notin DOMAIN v

JsLess(v, n) == ~IsNaN(v) /\ v.num < n

JsLessEq(v, n) == ~IsNaN(v) /\ v.num <= n

JsGreater(v, n) == ~IsNaN(v) /\ v.num > n

IsoDate(d) == [iso |-> d]

\* isNaN(new Date(loan.startDate).getTime())
InvalidDate(text) == "iso" \notin DOMAIN text

\* the obligation as the document spells it; interestRate in percent
RawLoan(loan) ==
    LET required ==
            [id |-> loan.id, name |-> loan.name, principal |-> Num(loan.principal),
             recipient |-> loan.recipient, interestRate |-> Num(loan.ratePct),
             startDate |-> IsoDate(loan.startDate),
             cryptoPreference |-> loan.cryptoPreference, active |-> loan.active]
    IN  IF "notes" \in DOMAIN loan
        THEN required @@ ("notes" :> loan.notes)
        ELSE required

Without(loan, field) == [f \in DOMAIN loan \ {field} |-> loan[f]]

RequiredFields ==
    {"id", "name", "principal", "recipient", "interestRate", "startDate",
     "cryptoPreference"}

\* !loan[field] && loan[field] !== 0
Missing(loan, field) ==
    \/ field \notin DOMAIN loan
    \/ field \in {"id", "name", "cryptoPreference"} /\ loan[field] = ""
    \/ field \in {"principal", "interestRate"} /\ loan[field] = Str("")

validTypes == {"valrAccountId", "email", "cellNumber"}

\* validateLoan returns (TRUE) or throws (FALSE)
validateLoan(loan) ==
    /\ \A field \in RequiredFields : ~Missing(loan, field)
    /\ ~JsLessEq(loan.principal, 0)
    /\ ~(JsLess(loan.interestRate, 0) \/ JsGreater(loan.interestRate, 100))
    /\ "type" \in DOMAIN loan.recipient /\ loan.recipient.type # ""
    /\ "value" \in DOMAIN loan.recipient /\ loan.recipient.value # ""
    /\ loan.recipient.type \in validTypes
    /\ ~InvalidDate(loan.startDate)

\* the file: absent, not JSON, or a JSON object
NoFile == [exists |-> FALSE]

NotJson == [exists |-> TRUE, parses |-> FALSE]

Json(body) == [exists |-> TRUE, parses |-> TRUE, body |-> body]

Array(items) == [array |-> TRUE, items |-> items]

Document(items) == Json([version |-> "1.0", loans |-> Array(items)])

\* !config.version || !Array.isArray(config.loans)
InvalidSchema(body) ==
    \/ "version" \notin DOMAIN body
    \/ body.version = ""
    \/ "loans" \notin DOMAIN body
    \/ ~body.loans.array

\* l => l.active
IsActive(loan) == "active" \in DOMAIN loan /\ loan.active

\* loadLoans: the value of this.loans when the call returns
loadLoans(file) ==
    IF ~file.exists
    THEN <<>>
    ELSE IF ~file.parses
    THEN <<>>
    ELSE IF InvalidSchema(file.body)
    THEN <<>>
    ELSE IF \E i \in 1..Len(file.body.loans.items) :
                ~validateLoan(file.body.loans.items[i])
    THEN <<>>
    ELSE SelectSeq(file.body.loans.items, IsActive)

RECURSIVE RawLoans(_)
RawLoans(lns) == IF lns = <<>> THEN <<>> ELSE <<RawLoan(Head(lns))>> \o RawLoans(Tail(lns))

\* the constructor has loaded the document that spells the registry
Constructed(lns) ==
    /\ configFile = Document(RawLoans(lns))
    /\ lastLoad = [file |-> configFile, before |-> <<>>]

(***************************************************************************)
(* LoanMonitor: positions from the balances, payments from the stored      *)
(* transactions.  Amounts are whole units.                                 *)
(***************************************************************************)
Abs(n) == IF n < 0 THEN 0 - n ELSE n

Position(currency, amount) == [currency |-> currency, amount |-> amount]

RECURSIVE LoanPositions_WithZero(_)
LoanPositions_WithZero(balances) ==
    IF balances = <<>>
    THEN <<>>
    ELSE (IF Head(balances).total <= 0
          THEN <<Position(Head(balances).currency, Abs(Head(balances).total))>>
          ELSE <<>>) \o LoanPositions_WithZero(Tail(balances))

\* if (total < 0) loans.push({currency, amount: Math.abs(total)})
RECURSIVE LoanPositions(_)
LoanPositions(balances) ==
    IF balances = <<>>
    THEN <<>>
    ELSE (IF Head(balances).total < 0
          THEN <<Position(Head(balances).currency, Abs(Head(balances).total))>>
          ELSE <<>>) \o LoanPositions(Tail(balances))

\* else if (total > 0) collateral.push({currency, amount: total, ...})
RECURSIVE CollateralPositions(_)
CollateralPositions(balances) ==
    IF balances = <<>>
    THEN <<>>
    ELSE (IF ~(Head(balances).total < 0) /\ Head(balances).total > 0
          THEN <<Position(Head(balances).currency, Head(balances).total)>>
          ELSE <<>>) \o CollateralPositions(Tail(balances))

Currencies(positions) == [i \in 1..Len(positions) |-> positions[i].currency]

\* the metrics before the first update
NoMetrics == [loans |-> <<>>, collateral |-> <<>>, totalPaymentsByCurrency |-> <<>>]

\* a stored transaction; a column that is NULL is left out
Tx(id, type) == [id |-> id, transactionType |-> type]

Credit(tx, currency, value) ==
    [f \in DOMAIN tx \cup {"creditCurrency", "creditValue"} |->
        IF f = "creditCurrency" THEN currency
        ELSE IF f = "creditValue" THEN value ELSE tx[f]]

WithTransferId(tx, transferId) ==
    [f \in DOMAIN tx \cup {"transferId"} |->
        IF f = "transferId" THEN transferId ELSE tx[f]]

getAllPaymentTransactions_IgnoreUnidentified(table, ignoreTransferIds) ==
    SelectSeq(table, LAMBDA tx :
        /\ tx.transactionType = "INTERNAL_TRANSFER"
        /\ "creditCurrency" \in DOMAIN tx
        /\ \/ ignoreTransferIds = {}
           \/ "transferId" \in DOMAIN tx /\ tx.transferId \notin ignoreTransferIds)

\* WHERE transaction_type = 'INTERNAL_TRANSFER' AND credit_currency IS NOT NULL,
\* then the filter on additionalInfo.transferId
getAllPaymentTransactions(table, ignoreTransferIds) ==
    SelectSeq(table, LAMBDA tx :
        /\ tx.transactionType = "INTERNAL_TRANSFER"
        /\ "creditCurrency" \in DOMAIN tx
        /\ \/ ignoreTransferIds = {}
           \/ "transferId" \notin DOMAIN tx
           \/ tx.transferId \notin ignoreTransferIds)

\* totalPayments[currency] = (totalPayments[currency] || 0) + amount
AddCredit(totals, tx) ==
    IF "creditValue" \in DOMAIN tx /\ "creditCurrency" \in DOMAIN tx
    THEN (tx.creditCurrency :>
             ((IF tx.creditCurrency \in DOMAIN totals THEN totals[tx.creditCurrency] ELSE 0)
                  + tx.creditValue)) @@ totals
    ELSE totals

RECURSIVE TotalPayments(_)
TotalPayments(paymentTransactions) ==
    IF paymentTransactions = <<>>
    THEN <<>>
    ELSE AddCredit(TotalPayments(SubSeq(paymentTransactions, 1,
                                        Len(paymentTransactions) - 1)),
                   paymentTransactions[Len(paymentTransactions)])

\* calculatePayments: metrics.totalPaymentsByCurrency
calculatePayments(table, ignoreTransferIds) ==
    TotalPayments(getAllPaymentTransactions(table, ignoreTransferIds))

\* the balances of the principal subaccount, as getBalances returns them
PrincipalBalances ==
    {<<[currency |-> "BTC", total |-> 0 - 2], [currency |-> "ETH", total |-> 0 - 1],
       [currency |-> "ZAR", total |-> 500]>>}

MetricsLoanLists == {Currencies(LoanPositions(b)) : b \in PrincipalBalances}

\* no transaction is stored and no transfer is ignored
MonitorIdle ==
    /\ principalBalances \in PrincipalBalances
    /\ transactions = <<>>
    /\ paymentIgnoreTransferIds = {}

(***************************************************************************)
(* fetchTransactionsWithPagination: the loop over the pages of the         *)
(* transaction history.  A page is held as its length and the number of    *)
(* its transactions older than startTime; the rows stored are counted.     *)
(***************************************************************************)
PageLimit == 200

SafetyLimit == 10000

\* if (transactions.length === 0): hasMore = false; break
EmptyPage(page) == page.length = 0

\* transactions.filter(tx => eventAt >= startTime), when startTime is given
Filtered(page, start) == IF start = Null THEN page.length ELSE page.length - page.older

\* filteredTransactions.length < transactions.length
OlderFound(page, start) == start # Null /\ Filtered(page, start) < page.length

\* transactions.length < limit
ShortPage(page) == page.length < PageLimit

SafetyLimitReached_Never(nextSkip) == FALSE

\* if (skip >= 10000), after skip += limit
SafetyLimitReached(nextSkip) == nextSkip >= SafetyLimit

\* hasMore at the end of an iteration that did not break
HasMoreAfter(page, start, nextSkip) ==
    /\ ~OlderFound(page, start)
    /\ ~ShortPage(page)
    /\ ~SafetyLimitReached(nextSkip)

SyncIdle ==
    /\ fetchPc = "idle"
    /\ startTime = Null
    /\ skip = 0
    /\ hasMore = FALSE
    /\ totalFetched = 0
    /\ newTransactionsStored = 0
    /\ pageRequests = 0

(***************************************************************************)
(* State after construction.                                               *)
(***************************************************************************)
\* no request has been answered
NoResponse == [path |-> "none", status |-> 0, body |-> <<>>]

InitCycles ==
    /\ SyncIdle
    /\ response = NoResponse
    /\ pc = [p \in Procs |-> "idle"]
    /\ plan = [p \in Procs |-> NoPlan]
    /\ idx = [p \in Procs |-> 0]
    /\ result = [p \in Procs |-> NewResult(0, 0)]
    /\ ret = [p \in Procs |-> NewResult(0, 0)]
    /\ executionId = [p \in Procs |-> 0]
    /\ tradeResult = [p \in Procs |-> NoTrade]
    /\ buys = [p \in Procs |-> Counts(0)]
    /\ xfers = [p \in Procs |-> Counts(0)]
    /\ execWrites = [p \in Procs |-> 0]
    /\ started = 0
    /\ exchangeCalls = {}
    /\ faults = 0
    /\ metrics = [NoMetrics EXCEPT
                      !.loans = [i \in 1..Len(metricsLoans) |->
                                    Position(metricsLoans[i], 1)]]

Init ==
    /\ loans \in Registries
    /\ Constructed(loans)
    /\ config \in [minimumZARReserve : Reserves, dryRun : BOOLEAN]
    /\ metricsLoans = <<>>
    /\ metricsAprs = <<>>
    /\ ffPayments = <<>>
    /\ executions = <<>>
    /\ valrRepayments = <<>>
    /\ now = 20
    /\ MonitorIdle
    /\ InitCycles

(***************************************************************************)
(* executeRepaymentPlan: the action loop.                                  *)
(***************************************************************************)
Action(p) == plan[p].payments[idx[p]]

Count(s, i) == Cardinality({k \in 1..Len(s) : s[k] = i})

nextActionIndex_AbortOnFailure(i, res, n) == IF res.success THEN i + 1 ELSE n + 1

nextActionIndex_RetryOnFailure(i, res, n) == IF res.success \/ i = 0 THEN i + 1 ELSE i

\* for (const action of plan.payments): the loop goes on whatever res holds
nextActionIndex(i, res, n) == i + 1

\* payFriendsFamily throws "Loan not found" before any purchase
RECURSIVE startNextAction(_, _, _, _)
startNextAction(lns, payments, i, res) ==
    IF i > Len(payments)
    THEN [idx |-> i, result |-> res]
    ELSE IF /\ payments[i].type = "FRIENDS_FAMILY"
            /\ getLoan(lns, payments[i].loanIdentifier) = Null
         THEN startNextAction(lns, payments,
                              nextActionIndex(i, ActionFailed(res, payments[i], "Loan not found"),
                                              Len(payments)),
                              ActionFailed(res, payments[i], "Loan not found"))
         ELSE [idx |-> i, result |-> res]

\* What follows action i of plan pl (i = 0: the loop starts): the purchase of
\* the next action is invoked, or the loop is over and the terminal row is
\* written.  res, r, execs, nW and f are the plan execution's result, the
\* cycle's result, the executions table, the cycle's row count and the number
\* of failed ledger calls so far.
Continue(p, i, pl, res, r, execs, nW, f) ==
    LET nx == startNextAction(loans, pl.payments,
                              nextActionIndex(i, res, Len(pl.payments)), res)
    IN  /\ idx' = [idx EXCEPT ![p] = nx.idx]
        /\ result' = [result EXCEPT ![p] = nx.result]
        /\ IF nx.idx <= Len(pl.payments)
           THEN /\ pc' = [pc EXCEPT ![p] = "buy"]
                /\ buys' = [buys EXCEPT ![p] = Append(@, nx.idx)]
                /\ executions' = execs
                /\ execWrites' = [execWrites EXCEPT ![p] = nW]
                /\ ret' = [ret EXCEPT ![p] = r]
                /\ faults' = f
           ELSE /\ pc' = [pc EXCEPT ![p] = "returned"]
                /\ buys' = buys
                /\ \E dbOk \in BOOLEAN :
                       IF dbOk
                       THEN /\ executions' = recordRepaymentExecution(execs, TerminalRow(nx.result))
                            /\ execWrites' = [execWrites EXCEPT ![p] = nW + 1]
                            /\ ret' = [ret EXCEPT ![p] = CycleUpdated(r, nx.result)]
                            /\ faults' = f
                       ELSE /\ f < MaxFaults
                            /\ faults' = f + 1
                            /\ executions' = execs
                            /\ execWrites' = [execWrites EXCEPT ![p] = nW]
                            /\ ret' = [ret EXCEPT ![p] = CycleFailed(r, "db write failed")]

(***************************************************************************)
(* executeRepaymentCycle.                                                  *)
(***************************************************************************)
\* a trigger calls executeRepaymentCycle; it runs up to await getBalance.
\* POST /repayment/execute calls it at once, updateData after updateMetrics.
BeginCycle(p) ==
    /\ pc[p] = IF p = "manual" THEN "idle" ELSE "ready"
    /\ started < MaxCycles
    /\ started' = started + 1
    /\ pc' = [pc EXCEPT ![p] = "planning"]
    /\ ret' = [ret EXCEPT ![p] = NewResult(now, 0)]
    /\ UNCHANGED <<response, sync, source, monitor, exchangeCalls, env, ledger, plan, idx, result, executionId, tradeResult,
                   buys, xfers, execWrites, faults>>

PlanOf(read) ==
    buildRepaymentPlan(getAvailableZAR(read), config.minimumZARReserve, loans,
                       ffPayments, now, metricsLoans, metricsAprs)

\* buildRepaymentPlan throws: a ledger read of getPaymentsDueThisMonth fails
PlanFails(p) ==
    /\ pc[p] = "planning"
    /\ \E read \in BalanceReads :
           /\ UsableZAR(getAvailableZAR(read), config.minimumZARReserve) > 0
           /\ loans # <<>>
    /\ faults < MaxFaults
    /\ faults' = faults + 1
    /\ pc' = [pc EXCEPT ![p] = "returned"]
    /\ ret' = [ret EXCEPT ![p] = CycleFailed(@, "db read failed")]
    /\ UNCHANGED <<response, sync, source, monitor, exchangeCalls, env, ledger, plan, idx, result, executionId, tradeResult, ghost>>

\* the plan cannot be executed: the skip is recorded and the cycle returns
PlanSkipped(p) ==
    /\ pc[p] = "planning"
    /\ \E dbOk \in BOOLEAN, read \in BalanceReads : \E pl \in {PlanOf(read)} :
           LET r == [ret[p] EXCEPT !.actionsPlanned = Len(pl.payments)]
           IN  /\ ~pl.canExecute
               /\ plan' = [plan EXCEPT ![p] = pl]
               /\ IF dbOk
                  THEN /\ executions' = recordRepaymentExecution(executions, SkipRow(r, pl))
                       /\ execWrites' = [execWrites EXCEPT ![p] = @ + 1]
                       /\ ret' = [ret EXCEPT ![p] = r]
                       /\ faults' = faults
                  ELSE /\ faults < MaxFaults
                       /\ faults' = faults + 1
                       /\ executions' = executions
                       /\ execWrites' = execWrites
                       /\ ret' = [ret EXCEPT ![p] = CycleFailed(r, "db write failed")]
    /\ pc' = [pc EXCEPT ![p] = "returned"]
    /\ UNCHANGED <<response, sync, source, monitor, exchangeCalls, env, ffPayments, valrRepayments, idx, result, executionId,
                   tradeResult, buys, xfers, started>>

\* the plan can be executed, the provisional row cannot be written
PlanNotRecorded(p) ==
    /\ pc[p] = "planning"
    /\ \E read \in BalanceReads : \E pl \in {PlanOf(read)} :
               /\ pl.canExecute
               /\ plan' = [plan EXCEPT ![p] = pl]
               /\ ret' = [ret EXCEPT ![p] =
                             CycleFailed([@ EXCEPT !.actionsPlanned = Len(pl.payments)],
                                         "db write failed")]
    /\ faults < MaxFaults
    /\ faults' = faults + 1
    /\ pc' = [pc EXCEPT ![p] = "returned"]
    /\ UNCHANGED <<response, sync, source, monitor, exchangeCalls, env, ledger, idx, result, executionId, tradeResult, ghost>>

\* the plan can be executed: provisional row, then the loop starts
PlanExecuted(p) ==
    /\ pc[p] = "planning"
    /\ \E read \in BalanceReads : \E pl \in {PlanOf(read)} :
               /\ pl.canExecute
               /\ plan' = [plan EXCEPT ![p] = pl]
               /\ executionId' = [executionId EXCEPT ![p] = Len(executions) + 1]
               /\ Continue(p, 0, pl, NewResult(now, Len(pl.payments)),
                           [ret[p] EXCEPT !.actionsPlanned = Len(pl.payments)],
                           recordRepaymentExecution(executions, ProvisionalRow(now, pl)),
                           execWrites[p] + 1, faults)
    /\ UNCHANGED <<response, sync, source, monitor, exchangeCalls, env, ffPayments, valrRepayments, tradeResult, xfers, started>>

\* buyWithZAR returns success = false: no transfer, the error is recorded
BuyFails(p) ==
    /\ pc[p] = "buy"
    /\ \E ex \in TradeAnswers(Action(p).amountInZAR),
          tr \in TradeResults(Action(p).amountInZAR) :
           /\ tr = buyWithZAR(Action(p).amountInZAR, ex)
           /\ TradeFailed(tr)
           /\ exchangeCalls' = exchangeCalls \cup OrdersPlaced(ex)
           /\ Continue(p, idx[p], plan[p],
                       ActionFailed(result[p], Action(p), ThrownMessage(tr, "Trade failed")),
                       ret[p], executions, execWrites[p], faults)
    /\ UNCHANGED <<response, sync, source, monitor, env, ffPayments, valrRepayments, plan, executionId, tradeResult,
                   xfers, started>>

\* buyWithZAR returns success: the transfer is invoked
BuySucceeds(p) ==
    /\ pc[p] = "buy"
    /\ \E ex \in TradeAnswers(Action(p).amountInZAR),
          tr \in TradeResults(Action(p).amountInZAR) :
           /\ tr = buyWithZAR(Action(p).amountInZAR, ex)
           /\ ~TradeFailed(tr)
           /\ exchangeCalls' = exchangeCalls \cup OrdersPlaced(ex)
           /\ tradeResult' = [tradeResult EXCEPT ![p] = tr]
    /\ pc' = [pc EXCEPT ![p] = "transfer"]
    /\ xfers' = [xfers EXCEPT ![p] = Append(@, idx[p])]
    /\ UNCHANGED <<response, sync, source, monitor, env, ledger, plan, idx, result, ret, executionId, buys,
                   execWrites, started, faults>>

\* the transfer returns success = false: the error is recorded
TransferFails(p) ==
    /\ pc[p] = "transfer"
    /\ tradeResult' = [tradeResult EXCEPT ![p] = NoTrade]
    /\ \E ex \in TransferAnswers, xr \in TransferResults(Action(p)) :
           /\ xr = TransferOf(Action(p), ex)
           /\ TransferFailed(xr)
           /\ exchangeCalls' = exchangeCalls \cup TransfersIssued(ex)
           /\ Continue(p, idx[p], plan[p],
                       ActionFailed(result[p], Action(p),
                                    ThrownMessage(xr, "Transfer failed")),
                       ret[p], executions, execWrites[p], faults)
    /\ UNCHANGED <<response, sync, source, monitor, env, ffPayments, valrRepayments, plan, executionId, xfers, started>>

\* the transfer returns success: the payment row is written
TransferSucceeds(p) ==
    /\ pc[p] = "transfer"
    /\ tradeResult' = [tradeResult EXCEPT ![p] = NoTrade]
    /\ \E ex \in TransferAnswers, xr \in TransferResults(Action(p)), dbOk \in BOOLEAN :
           /\ xr = TransferOf(Action(p), ex)
           /\ ~TransferFailed(xr)
           /\ exchangeCalls' = exchangeCalls \cup TransfersIssued(ex)
           /\ IF dbOk
              THEN /\ IF Action(p).type = "FRIENDS_FAMILY"
                      THEN /\ ffPayments' = recordFFPayment(ffPayments,
                                  FFPaymentRow(Action(p), tradeResult[p], xr.transferId, now))
                           /\ valrRepayments' = valrRepayments
                      ELSE /\ valrRepayments' = recordVALRRepayment(valrRepayments,
                                  VALRRepaymentRow(Action(p), tradeResult[p],
                                                   xr.transferId, executionId[p]))
                           /\ ffPayments' = ffPayments
                   /\ Continue(p, idx[p], plan[p], ActionCompleted(result[p], Action(p)),
                               ret[p], executions, execWrites[p], faults)
              ELSE /\ faults < MaxFaults
                   /\ UNCHANGED <<ffPayments, valrRepayments>>
                   /\ Continue(p, idx[p], plan[p],
                               ActionFailed(result[p], Action(p), "db write failed"),
                               ret[p], executions, execWrites[p], faults + 1)
    /\ UNCHANGED <<response, sync, source, monitor, env, plan, executionId, xfers, started>>

\* the caller receives the result; the call's locals are gone
Return(p) ==
    /\ pc[p] = "returned"
    /\ pc' = [pc EXCEPT ![p] = "idle"]
    /\ plan' = [plan EXCEPT ![p] = NoPlan]
    /\ idx' = [idx EXCEPT ![p] = 0]
    /\ result' = [result EXCEPT ![p] = NewResult(0, 0)]
    /\ ret' = [ret EXCEPT ![p] = NewResult(0, 0)]
    /\ executionId' = [executionId EXCEPT ![p] = 0]
    /\ buys' = [buys EXCEPT ![p] = <<>>]
    /\ xfers' = [xfers EXCEPT ![p] = <<>>]
    /\ execWrites' = [execWrites EXCEPT ![p] = 0]
    /\ UNCHANGED <<response, sync, source, monitor, exchangeCalls, env, ledger, tradeResult, started, faults>>

(***************************************************************************)
(* updateData (interval timer, POST /refresh): LoanMonitor.updateMetrics,  *)
(* then the cycle.  The clock.                                             *)
(***************************************************************************)
\* detectLoansAndCalculateInterest: metrics.loans from the balances
DetectLoans(p) ==
    /\ p = "timer"
    /\ pc[p] = "idle"
    /\ started < MaxCycles
    /\ metrics' = [metrics EXCEPT !.loans = LoanPositions(principalBalances),
                                  !.collateral = CollateralPositions(principalBalances)]
    /\ metricsLoans' = Currencies(LoanPositions(principalBalances))
    /\ pc' = [pc EXCEPT ![p] = "aprs"]
    /\ UNCHANGED <<response, sync, source, stored, exchangeCalls, loans, config, metricsAprs, now, ledger, plan, idx, result, ret,
                   executionId, tradeResult, ghost, faults>>

\* detectLoansAndCalculateInterest: metrics.effectiveAPRByLoan, awaits later
UpdateAprs(p) ==
    /\ pc[p] = "aprs"
    /\ \E a \in MetricsAprMaps : metricsAprs' = a
    /\ pc' = [pc EXCEPT ![p] = "ready"]
    /\ UNCHANGED <<response, sync, source, monitor, exchangeCalls, loans, config, metricsLoans, now, ledger, plan, idx, result, ret,
                   executionId, tradeResult, ghost, faults>>

\* updateMetrics throws: updateData logs the error and runs no cycle
UpdateFails(p) ==
    /\ pc[p] \in {"aprs", "ready"}
    /\ pc' = [pc EXCEPT ![p] = "idle"]
    /\ UNCHANGED <<response, sync, source, monitor, exchangeCalls, env, ledger, plan, idx, result, ret, executionId, tradeResult,
                   ghost, faults>>

Tick ==
    /\ \E d \in TickSteps :
           /\ now + d <= MaxDay
           /\ now' = now + d
    /\ UNCHANGED <<response, sync, source, monitor, exchangeCalls, loans, config, metricsLoans, metricsAprs, ledger, cycle, ghost, faults>>

Next ==
    \/ \E p \in Procs :
           \/ BeginCycle(p)
           \/ PlanFails(p)
           \/ PlanSkipped(p)
           \/ PlanNotRecorded(p)
           \/ PlanExecuted(p)
           \/ BuyFails(p)
           \/ BuySucceeds(p)
           \/ TransferFails(p)
           \/ TransferSucceeds(p)
           \/ Return(p)
    \/ \E p \in Procs :
           \/ DetectLoans(p)
           \/ UpdateAprs(p)
           \/ UpdateFails(p)
    \/ Tick

Spec == Init /\ [][Next]_vars

(***************************************************************************)
(* The planner alone: buildRepaymentPlan applied to drawn inputs.          *)
(***************************************************************************)
Paid(loanId, day) ==
    [loanId |-> loanId, paymentDate |-> day, amountZAR |-> 119,
     cryptoCurrency |-> "USDC", cryptoAmount |-> 11, transferId |-> <<"transfer">>,
     type |-> "INTEREST"]

PlanRegistries ==
    {<<>>, <<LoanA>>, <<LoanFree>>, <<LoanA, LoanB>>, <<LoanB, LoanA>>,
     <<LoanA, LoanLate>>, <<LoanA, LoanFree>>}

PlanLedgers ==
    {<<>>, <<Paid("A", 0 - 15)>>, <<Paid("A", 5)>>, <<Paid("B", 35)>>,
     <<Paid("A", 0), Paid("B", 5)>>}

PlanDays == {20, 30, 40}

PlanReserves == {0, 50}

PlanBalanceReads ==
    {[ok |-> FALSE, total |-> 0]}
        \cup {[ok |-> TRUE, total |-> b] : b \in {0, 50, 100, 170, 230, 500}}

PlanMetricsLoanLists == {<<>>, <<"BTC">>, <<"BTC", "ETH">>, <<"ETH", "BTC", "XRP">>}

PlanMetricsAprMaps ==
    {<<>>, ("BTC" :> 5) @@ ("ETH" :> 9), ("BTC" :> 9) @@ ("ETH" :> 9),
     ("ETH" :> (0 - 3)) @@ ("BTC" :> 0)}

PlanInit ==
    /\ loans \in PlanRegistries
    /\ Constructed(loans)
    /\ config \in [minimumZARReserve : PlanReserves, dryRun : {TRUE}]
    /\ metricsLoans \in PlanMetricsLoanLists
    /\ metricsAprs \in PlanMetricsAprMaps
    /\ ffPayments \in PlanLedgers
    /\ executions = <<>>
    /\ valrRepayments = <<>>
    /\ now \in PlanDays
    /\ MonitorIdle
    /\ InitCycles

BuildPlan(p) ==
    /\ pc[p] = "idle"
    /\ \E read \in PlanBalanceReads : plan' = [plan EXCEPT ![p] = PlanOf(read)]
    /\ pc' = [pc EXCEPT ![p] = "planned"]
    /\ UNCHANGED <<response, sync, source, monitor, exchangeCalls, env, ledger, idx, result, ret, executionId, tradeResult, ghost, faults>>

PlanNext == \E p \in Procs : BuildPlan(p)

PlanSpec == PlanInit /\ [][PlanNext]_vars

(***************************************************************************)
(* Properties of the planner, stated on the plans of PlanSpec.             *)
(***************************************************************************)
Planned(p) == pc[p] = "planned"

\* usable fiat of the plan of p: available balance minus minimum reserve
Usable(p) == plan[p].totalZARAvailable - config.minimumZARReserve

\* the obligation payments due now, and the sum of their fiat amounts
Due == getPaymentsDueThisMonth(loans, ffPayments, now)

DueTotal == SumZAR([i \in 1..Len(Due) |-> [amountInZAR |-> Due[i].amountZAR]])

OfType(p, type) == SelectSeq(plan[p].payments, LAMBDA a : a.type = type)

\* the obligation actions of the plan are the due payments, one action
\* each, in order, each at the full monthly amount of its obligation
ListsEveryDue(p) ==
    /\ Len(OfType(p, "FRIENDS_FAMILY")) = Len(Due)
    /\ \A i \in 1..Len(Due) :
           /\ OfType(p, "FRIENDS_FAMILY")[i].loanIdentifier = Due[i].loanId
           /\ OfType(p, "FRIENDS_FAMILY")[i].amountInZAR = Due[i].amountZAR
           /\ \E k \in 1..Len(loans) :
                  /\ loans[k].id = Due[i].loanId
                  /\ Due[i].amountZAR * 1200 = loans[k].principal * loans[k].ratePct

\* C1: when usable fiat is positive but below the sum of the due obligation
\* amounts, the plan is not executable, lists every due obligation at its
\* full monthly amount and has no revolving-debt action; and no plan at all
\* holds an obligation action below the obligation's full due amount.
C1_ShortfallPlansNothingPartial ==
    \A p \in Procs :
        Planned(p) =>
            /\ (Usable(p) > 0 /\ Usable(p) < DueTotal) =>
                   /\ ~plan[p].canExecute
                   /\ ListsEveryDue(p)
                   /\ OfType(p, "VALR_LOAN") = <<>>
            /\ plan[p].payments # <<>> => ListsEveryDue(p)

C1_Witness ==
    \E p \in Procs :
        /\ Planned(p)
        /\ Usable(p) > 0
        /\ Usable(p) < DueTotal
        /\ Len(Due) = 2
        /\ metricsLoans # <<>>
        /\ Len(plan[p].payments) = 2

\* C2: an executable plan never spends into the reserve: its actions sum to
\* at most available fiat minus the minimum reserve.
C2_ExecutablePlanWithinUsable ==
    \A p \in Procs :
        (Planned(p) /\ plan[p].canExecute) =>
            SumZAR(plan[p].payments) <= plan[p].totalZARAvailable - config.minimumZARReserve

C2_Witness ==
    \E p \in Procs :
        /\ Planned(p)
        /\ plan[p].canExecute
        /\ config.minimumZARReserve > 0
        /\ Len(plan[p].payments) = 3
        /\ SumZAR(plan[p].payments) = plan[p].totalZARAvailable - config.minimumZARReserve

HasRemainder(p) == Usable(p) >= DueTotal /\ Usable(p) - DueTotal > 0

OneRevolvingActionForRemainder(p) ==
    /\ Len(OfType(p, "VALR_LOAN")) = 1
    /\ OfType(p, "VALR_LOAN")[1].amountInZAR = Usable(p) - DueTotal

\* C3 as claimed: whenever usable fiat covers the due obligations and leaves a
\* remainder, the plan has exactly one revolving-debt action, for the remainder.
C3_Original ==
    \A p \in Procs :
        (Planned(p) /\ HasRemainder(p)) => OneRevolvingActionForRemainder(p)

\* C3 as amended: the same, provided the loan metrics report at least one
\* active revolving debt; when they report none, the plan has no
\* revolving-debt action and the remainder stays unallocated.
C3_RemainderToOneRevolvingAction ==
    \A p \in Procs :
        (Planned(p) /\ HasRemainder(p)) =>
            IF metricsLoans # <<>>
            THEN OneRevolvingActionForRemainder(p)
            ELSE OfType(p, "VALR_LOAN") = <<>>

C3_Witness ==
    \E p \in Procs :
        /\ Planned(p)
        /\ HasRemainder(p)
        /\ Len(Due) = 2
        /\ Len(metricsLoans) >= 2
        /\ OneRevolvingActionForRemainder(p)

\* the rate the claim gives a debt: its entry, 0 when it has none
ClaimedApr(currency) ==
    IF currency \in DOMAIN metricsAprs THEN metricsAprs[currency] ELSE 0

ActiveDebts == {metricsLoans[i] : i \in 1..Len(metricsLoans)}

\* C4: a planned revolving-debt action targets an active revolving debt of the
\* loan metrics, and no active debt has a strictly higher APR.
C4_RevolvingActionHighestApr ==
    \A p \in Procs :
        Planned(p) =>
            \A i \in 1..Len(plan[p].payments) :
                plan[p].payments[i].type = "VALR_LOAN" =>
                    /\ plan[p].payments[i].currency \in ActiveDebts
                    /\ \A c \in ActiveDebts :
                           ClaimedApr(c) <= ClaimedApr(plan[p].payments[i].currency)

C4_Witness ==
    \E p \in Procs :
        /\ Planned(p)
        /\ Len(OfType(p, "VALR_LOAN")) = 1
        /\ OfType(p, "VALR_LOAN")[1].currency # metricsLoans[1]
        /\ \E c \in ActiveDebts : ClaimedApr(c) < ClaimedApr(OfType(p, "VALR_LOAN")[1].currency)
        /\ \E c \in ActiveDebts : c \notin DOMAIN metricsAprs

(***************************************************************************)
(* Properties of the executor, stated on the cycles of Spec.               *)
(***************************************************************************)
\* the cycle of p has written its provisional row: its action loop was entered
Executing(p) == plan[p].canExecute /\ execWrites[p] >= 1

UpTo(n) == [i \in 1..n |-> i]

ErrorsFor(p, i, msg) ==
    {k \in 1..Len(result[p].errors) :
        result[p].errors[k] = ErrorEntry(plan[p].payments[i].loanIdentifier, msg)}

\* C5: every action of an executed plan has its purchase invoked exactly
\* once, in plan order, whatever became of the actions before it.
C5_EveryActionAttemptedOnce ==
    \A p \in Procs :
        /\ pc[p] \in {"buy", "transfer"} => buys[p] = UpTo(idx[p])
        /\ (pc[p] = "returned" /\ Executing(p)) => buys[p] = UpTo(Len(plan[p].payments))

C5_Witness ==
    \E p \in Procs :
        /\ pc[p] = "returned"
        /\ Executing(p)
        /\ Len(plan[p].payments) = 2
        /\ plan[p].payments[1].type = "FRIENDS_FAMILY"
        /\ plan[p].payments[2].type = "VALR_LOAN"
        /\ ErrorsFor(p, 1, "Trade failed") # {}
        /\ buys[p] = <<1, 2>>
        /\ xfers[p] = <<2>>

\* C6: a row is added to ff_payments only as the last row, only by the step of
\* an obligation action in which its transfer returns success, the purchase
\* having succeeded before; no step changes or removes an existing row.
C6_PaymentOnlyAfterBuyAndTransfer ==
    [][ffPayments' # ffPayments =>
          \E p \in Procs :
              /\ pc[p] = "transfer"
              /\ Action(p).type = "FRIENDS_FAMILY"
              /\ tradeResult[p].success
              /\ idx[p] \in {buys[p][k] : k \in 1..Len(buys[p])}
              /\ idx[p] \in {xfers[p][k] : k \in 1..Len(xfers[p])}
              /\ Len(ffPayments') = Len(ffPayments) + 1
              /\ SubSeq(ffPayments', 1, Len(ffPayments)) = ffPayments
              /\ ffPayments'[Len(ffPayments')].loanId = Action(p).loanIdentifier
              /\ ffPayments'[Len(ffPayments')].transferId # NoTransferId
              /\ result'[p].errors = result[p].errors]_vars

C6_Witness ==
    /\ Len(ffPayments) = 2
    /\ \E p \in Procs :
           /\ pc[p] = "returned"
           /\ result[p].breakdown.friendsFamilyPayments = 1

\* C7: for both action types the transfer is invoked only in the step in which
\* the purchase of the same action returns success; the step in which a
\* purchase fails invokes no transfer and appends one error for the action,
\* and no transfer is ever invoked for that action.
C7_TransferOnlyAfterPurchase ==
    /\ [][\A p \in Procs :
              /\ (xfers'[p] # xfers[p] /\ pc'[p] # "idle") =>
                     /\ pc[p] = "buy"
                     /\ pc'[p] = "transfer"
                     /\ tradeResult'[p].success
                     /\ xfers'[p] = Append(xfers[p], idx[p])
              /\ (pc[p] = "buy" /\ pc'[p] # "transfer" /\ <<pc'[p], idx'[p]>> # <<pc[p], idx[p]>>) =>
                     /\ xfers'[p] = xfers[p]
                     /\ result'[p].errors =
                            Append(result[p].errors,
                                   ErrorEntry(Action(p).loanIdentifier, "Trade failed"))]_vars
    /\ [](\A p \in Procs :
              /\ pc[p] = "transfer" => tradeResult[p].success
              /\ \A i \in 1..Len(plan[p].payments) :
                     ErrorsFor(p, i, "Trade failed") # {} => Count(xfers[p], i) = 0)

C7_Witness ==
    \E p \in Procs :
        /\ pc[p] = "transfer"
        /\ Action(p).type = "VALR_LOAN"
        /\ ErrorsFor(p, 1, "Trade failed") # {}
        /\ xfers[p] = <<2>>

\* C8: the step in which a transfer fails after a successful purchase appends
\* exactly one error for the action, writes no payment or repayment row and
\* invokes nothing but the purchase of the next action; no action of a cycle
\* is ever bought or transferred a second time.
C8_FailedTransferNotCompensated ==
    /\ [][\A p \in Procs :
              (/\ pc[p] = "transfer"
               /\ result'[p].errors # result[p].errors
               /\ result'[p].errors[Len(result'[p].errors)].message = "Transfer failed") =>
                  /\ tradeResult[p].success
                  /\ result'[p].errors =
                         Append(result[p].errors,
                                ErrorEntry(Action(p).loanIdentifier, "Transfer failed"))
                  /\ ffPayments' = ffPayments
                  /\ valrRepayments' = valrRepayments
                  /\ xfers'[p] = xfers[p]
                  /\ buys'[p] \in {buys[p], Append(buys[p], idx[p] + 1)}
                  /\ result'[p].actionsExecuted = result[p].actionsExecuted]_vars
    /\ [](\A p \in Procs : \A i \in 1..Len(plan[p].payments) :
              /\ Count(buys[p], i) <= 1
              /\ Count(xfers[p], i) <= 1
              /\ Cardinality(ErrorsFor(p, i, "Transfer failed")) <= 1)

C8_Witness ==
    \E p \in Procs :
        /\ pc[p] = "returned"
        /\ Len(plan[p].payments) = 2
        /\ ErrorsFor(p, 1, "Transfer failed") # {}
        /\ result[p].actionsExecuted = 1
        /\ ffPayments = <<>>
        /\ Len(valrRepayments) = 1
        /\ xfers[p] = <<1, 2>>

\* C9 as claimed: every invocation of executeRepaymentCycle has written at
\* least one execution row by the time it returns.
C9_Original ==
    \A p \in Procs : pc[p] = "returned" => execWrites[p] >= 1

\* C10 as claimed: an executed cycle leaves exactly one execution row, the
\* terminal write updating the provisional row.
C10_Original ==
    \A p \in Procs : (pc[p] = "returned" /\ Executing(p)) => execWrites[p] = 1

(***************************************************************************)
(* Properties of the results and rows of a cycle.                          *)
(***************************************************************************)
Returned(p) == pc[p] = "returned"

\* C11: every row of repayment_executions and every result returned by
\* executeRepaymentCycle has actionsExecuted <= actionsPlanned.
C11_ExecutedAtMostPlanned ==
    /\ \A k \in 1..Len(executions) :
           executions[k].actionsExecuted <= executions[k].actionsPlanned
    /\ \A p \in Procs :
           Returned(p) => ret[p].actionsExecuted <= ret[p].actionsPlanned

C11_Witness ==
    \E p \in Procs :
        /\ Returned(p)
        /\ ret[p].actionsPlanned = 2
        /\ ret[p].actionsExecuted = 2
        /\ \E k \in 1..Len(executions) :
               /\ executions[k].actionsPlanned = 2
               /\ executions[k].actionsExecuted = 2

SuccessIffAllExecuted(r) ==
    /\ r.success <=> (r.errors = <<>> /\ r.actionsExecuted = r.actionsPlanned)
    /\ Len(r.errors) = r.actionsPlanned - r.actionsExecuted

\* C12 as claimed: the result of every cycle with an executable plan has
\* success exactly when there is no error and every planned action was
\* executed, and as many errors as planned actions that were not executed.
C12_Original ==
    \A p \in Procs :
        (Returned(p) /\ plan[p].canExecute) => SuccessIffAllExecuted(ret[p])

\* C12: the same for the cycles whose provisional and terminal execution rows
\* were both written; the terminal row carries the same values.  When one of
\* the two writes fails the result is a failure with the write error alone.
C12_SuccessIffNoActionFailed ==
    \A p \in Procs :
      /\ (Returned(p) /\ plan[p].canExecute /\ execWrites[p] < 2) =>
            /\ ~ret[p].success
            /\ ret[p].actionsExecuted = 0
            /\ ret[p].errors = <<ErrorEntry("cycle", "db write failed")>>
      /\ (Returned(p) /\ plan[p].canExecute /\ execWrites[p] = 2) =>
            /\ SuccessIffAllExecuted(ret[p])
            /\ \E k \in 1..Len(executions) :
                   /\ executions[k].success = ret[p].success
                   /\ executions[k].errors = ret[p].errors
                   /\ executions[k].actionsExecuted = ret[p].actionsExecuted
                   /\ executions[k].actionsPlanned = ret[p].actionsPlanned
            /\ ret[p].success <=> (\A i \in 1..Len(plan[p].payments) :
                                       \A k \in 1..Len(ret[p].errors) :
                                           ret[p].errors[k].loanIdentifier
                                               # plan[p].payments[i].loanIdentifier)

C12_Witness ==
    \E p \in Procs :
        /\ Returned(p)
        /\ plan[p].canExecute
        /\ execWrites[p] = 2
        /\ ret[p].actionsPlanned = 2
        /\ ret[p].actionsExecuted = 1
        /\ Len(ret[p].errors) = 1
        /\ ~ret[p].success

\* the cycle of p built a plan that cannot be executed
Skipped(p) == ~plan[p].canExecute /\ plan[p] # NoPlan

IsSkipRecord(row, pl) ==
    /\ row.success
    /\ row.actionsExecuted = 0
    /\ row.totalZARSpent = 0
    /\ row.actionsPlanned = Len(pl.payments)
    /\ row.errors = <<ErrorEntry("cycle", pl.skippedReason)>>

\* C13 as claimed: every cycle whose plan is not executable invokes no purchase
\* and no transfer, writes its skip row and returns success = true.
C13_Original ==
    \A p \in Procs :
        (Returned(p) /\ Skipped(p)) =>
            /\ buys[p] = <<>>
            /\ xfers[p] = <<>>
            /\ execWrites[p] = 1
            /\ ret[p].success

\* C13: a cycle whose plan is not executable invokes no purchase and no
\* transfer and writes nothing but one execution row with success = true,
\* actionsExecuted = 0, nothing spent and the skip reason as its only error,
\* and returns success = true; when that write fails no row is left and the
\* cycle returns success = false.
C13_SkippedCycleIsSuccessfulNoOp ==
    /\ [][\A p \in Procs :
              (pc[p] = "planning" /\ pc'[p] = "returned" /\ ~plan'[p].canExecute
                   /\ plan'[p] # NoPlan) =>
                  /\ buys'[p] = <<>>
                  /\ xfers'[p] = <<>>
                  /\ ffPayments' = ffPayments
                  /\ valrRepayments' = valrRepayments
                  /\ \/ /\ Len(executions') = Len(executions) + 1
                        /\ SubSeq(executions', 1, Len(executions)) = executions
                        /\ IsSkipRecord(executions'[Len(executions')], plan'[p])
                        /\ ret'[p].success
                        /\ ret'[p].errors = <<>>
                        /\ execWrites'[p] = 1
                     \/ /\ executions' = executions
                        /\ ~ret'[p].success
                        /\ execWrites'[p] = 0]_vars
    /\ [](\A p \in Procs :
              Skipped(p) =>
                  /\ buys[p] = <<>>
                  /\ xfers[p] = <<>>
                  /\ ret[p].actionsExecuted = 0
                  /\ ret[p].totalZARSpent = 0
                  /\ ret[p].success <=> execWrites[p] = 1)

C13_Witness ==
    \E p \in Procs :
        /\ Returned(p)
        /\ Skipped(p)
        /\ plan[p].payments # <<>>
        /\ ret[p].success
        /\ execWrites[p] = 1
        /\ \E k \in 1..Len(executions) : IsSkipRecord(executions[k], plan[p])

(***************************************************************************)
(* Further properties of the planner, stated on the plans of PlanSpec.     *)
(***************************************************************************)
\* C14: whenever available fiat minus the minimum reserve is zero or less,
\* the plan is not executable, has no action, needs nothing and carries the
\* reserve skip reason, whatever obligations are due.
C14_NothingUsablePlansNothing ==
    \A p \in Procs :
        (Planned(p) /\ Usable(p) <= 0) =>
            /\ ~plan[p].canExecute
            /\ plan[p].payments = <<>>
            /\ plan[p].totalZARNeeded = 0
            /\ plan[p].skippedReason = "Insufficient ZAR after reserve"

C14_Witness ==
    \E p \in Procs :
        /\ Planned(p)
        /\ Usable(p) = 0
        /\ plan[p].totalZARAvailable > 0
        /\ Len(Due) = 2
        /\ plan[p].payments = <<>>

(***************************************************************************)
(* ExecSpec: the cycles of one trigger over registries of two obligations, *)
(* with the loan metrics already collected.                                *)
(***************************************************************************)
ExecRegistries == {<<LoanA, LoanB>>, <<LoanB, LoanA>>}

ExecInit ==
    /\ loans \in ExecRegistries
    /\ Constructed(loans)
    /\ config \in [minimumZARReserve : Reserves, dryRun : BOOLEAN]
    /\ metricsLoans \in MetricsLoanLists
    /\ metricsAprs \in MetricsAprMaps
    /\ ffPayments = <<>>
    /\ executions = <<>>
    /\ valrRepayments = <<>>
    /\ now = 20
    /\ MonitorIdle
    /\ InitCycles

ExecNext ==
    \/ BeginCycle("manual")
    \/ PlanFails("manual")
    \/ PlanSkipped("manual")
    \/ PlanNotRecorded("manual")
    \/ PlanExecuted("manual")
    \/ BuyFails("manual")
    \/ BuySucceeds("manual")
    \/ TransferFails("manual")
    \/ TransferSucceeds("manual")
    \/ Return("manual")

ExecSpec == ExecInit /\ [][ExecNext]_vars

(***************************************************************************)
(* Properties of the order of the actions, stated on ExecSpec.             *)
(***************************************************************************)
RegistryPosition(loanId) == CHOOSE k \in 1..Len(loans) : loans[k].id = loanId

\* C15: in every plan the obligation actions come before the one
\* revolving-debt action and follow the order of the registry, and the
\* purchases of a cycle are invoked for the actions in the order of the plan.
C15_PlanAndExecutionOrder ==
    \A p \in Procs :
        /\ \A i, j \in 1..Len(plan[p].payments) :
               i < j =>
                   /\ plan[p].payments[i].priority = 1
                   /\ plan[p].payments[i].type = "FRIENDS_FAMILY"
                   /\ plan[p].payments[j].priority = 1 =>
                          RegistryPosition(plan[p].payments[i].loanIdentifier)
                              < RegistryPosition(plan[p].payments[j].loanIdentifier)
        /\ \A i \in 1..Len(plan[p].payments) :
               plan[p].payments[i].priority =
                   IF plan[p].payments[i].type = "FRIENDS_FAMILY" THEN 1 ELSE 2
        /\ pc[p] \in {"buy", "transfer"} => buys[p] = UpTo(idx[p])
        /\ (Returned(p) /\ Executing(p)) => buys[p] = UpTo(Len(plan[p].payments))
        /\ \A k \in 1..Len(xfers[p]) :
               /\ xfers[p][k] \in 1..Len(plan[p].payments)
               /\ k > 1 => xfers[p][k - 1] < xfers[p][k]

C15_Witness ==
    \E p \in Procs :
        /\ Returned(p)
        /\ Executing(p)
        /\ loans = <<LoanB, LoanA>>
        /\ Len(plan[p].payments) = 3
        /\ plan[p].payments[1].loanIdentifier = "B"
        /\ plan[p].payments[2].loanIdentifier = "A"
        /\ plan[p].payments[3].type = "VALR_LOAN"
        /\ buys[p] = <<1, 2, 3>>
        /\ xfers[p] = <<1, 2, 3>>

(***************************************************************************)
(* FairSpec: Spec in which every pending call of a started cycle           *)
(* eventually returns or throws, so the cycle's next step is taken.        *)
(***************************************************************************)
CycleStep(p) ==
    \/ PlanSkipped(p)
    \/ PlanFails(p)
    \/ PlanNotRecorded(p)
    \/ PlanExecuted(p)
    \/ BuyFails(p)
    \/ BuySucceeds(p)
    \/ TransferFails(p)
    \/ TransferSucceeds(p)

FairSpec == Spec /\ \A p \in Procs : WF_vars(CycleStep(p))

(***************************************************************************)
(* Properties of the cycles as a whole.                                    *)
(***************************************************************************)
InProgress(p) == pc[p] \in {"planning", "buy", "transfer"}

\* C16 as claimed: at any time at most one repayment cycle is between the
\* start of its planning and its terminal record write.
C16_Original ==
    Cardinality({p \in Procs : InProgress(p)}) <= 1

\* C17: a started cycle always comes to return a result: from planning, from
\* a pending purchase and from a pending transfer it reaches its return, and
\* until then it only moves forward through planning, purchases and transfers.
C17_StartedCycleReturns ==
    /\ \A p \in Procs : InProgress(p) ~> Returned(p)
    /\ [][\A p \in Procs :
              (InProgress(p) /\ pc'[p] # pc[p]) =>
                  /\ pc'[p] \in {"buy", "transfer", "returned"}
                  /\ pc[p] = "transfer" => pc'[p] # "transfer"]_vars

C17_Witness ==
    \E p \in Procs :
        /\ Returned(p)
        /\ plan[p].canExecute
        /\ execWrites[p] = 1
        /\ buys[p] # <<>>
        /\ ~ret[p].success

(***************************************************************************)
(* Properties of failures: the ledger store and the exchange.              *)
(***************************************************************************)
ActionIndex(p, loanIdentifier) ==
    CHOOSE i \in 1..Len(plan[p].payments) :
        plan[p].payments[i].loanIdentifier = loanIdentifier

\* C18 as claimed: a failed ledger write is never recorded as the error of one
\* action after which the cycle goes on to purchase for a later action.
C18_Original ==
    \A p \in Procs : \A k \in 1..Len(result[p].errors) :
        result[p].errors[k].message = "db write failed" =>
            \A j \in 1..Len(buys[p]) :
                buys[p][j] <= ActionIndex(p, result[p].errors[k].loanIdentifier)

ConvertedMessages == {"Trade failed", "Transfer failed", "db write failed", "Loan not found"}

\* C19: whatever the exchange answers to the price lookup, the order, the
\* status query and the transfer call, buyWithZAR and both transfers return a
\* result and raise nothing; a failed call gives success = false with the
\* error message, a failed purchase with nothing received and nothing spent;
\* so every error a cycle records for an action is one the cycle raised itself.
C19_ExchangeFailuresAreReturned ==
    \A p \in Procs :
        /\ \A i \in 1..Len(plan[p].payments) :
               /\ \A ex \in ExchangeAnswers :
                      LET tr == buyWithZAR(plan[p].payments[i].amountInZAR, ex)
                          failed == ~ex.priceOk
                                      \/ (~config.dryRun /\ (~ex.orderOk \/ ~ex.statusOk))
                      IN  /\ "thrown" \notin DOMAIN tr
                          /\ tr.success <=> ~failed
                          /\ ~tr.success =>
                                 /\ tr.cryptoReceived = 0
                                 /\ tr.zarSpent = 0
                                 /\ tr.error = ExchangeError
               /\ \A ex \in TransferAnswers :
                      \A xr \in {transferToLoanAccount(ex),
                                 transferToFriendsFamily(
                                     plan[p].payments[i].recipientName, ex)} :
                          /\ "thrown" \notin DOMAIN xr
                          /\ xr.success <=> (config.dryRun \/ ex.ok)
                          /\ ~xr.success => xr.error = ExchangeError
        /\ \A k \in 1..Len(result[p].errors) :
               result[p].errors[k].message \in ConvertedMessages

C19_Witness ==
    \E p \in Procs :
        /\ ~config.dryRun
        /\ Returned(p)
        /\ Len(plan[p].payments) = 2
        /\ ErrorsFor(p, 1, "Trade failed") # {}
        /\ ErrorsFor(p, 2, "Transfer failed") # {}
        /\ ret[p].actionsExecuted = 0

(***************************************************************************)
(* Simulation mode                                                         *)
(***************************************************************************)

\* the simulated fill of an amount at a price
SimulatedFill(tr, zarAmount) ==
    /\ tr.success
    /\ tr.zarSpent = zarAmount
    /\ tr.cryptoReceived = zarAmount \div tr.price

\* the placeholder identifier of the transfer of an action
Placeholder(action) ==
    IF action.type = "FRIENDS_FAMILY"
    THEN <<"dry-run-ff-transfer", action.recipientName>>
    ELSE <<"dry-run-transfer-id">>

\* C20 as stated: in dry-run mode no order is placed and no transfer is issued
\* on the exchange, every purchase returns success with cryptoReceived =
\* fiatAmount / price and zarSpent = fiatAmount, and every transfer returns
\* success with its placeholder identifier.
C20_Original ==
    config.dryRun =>
        /\ exchangeCalls = {}
        /\ \A p \in Procs :
               /\ pc[p] = "buy" =>
                      \A tr \in TradeResults(Action(p).amountInZAR) :
                          SimulatedFill(tr, Action(p).amountInZAR)
               /\ pc[p] = "transfer" =>
                      \A xr \in TransferResults(Action(p)) :
                          xr.success /\ xr.transferId = Placeholder(Action(p))

\* C20, amended: in dry-run mode no order is placed and no transfer is issued
\* on the exchange by any cycle; a purchase whose price lookup succeeds returns
\* the simulated fill at that price, one whose price lookup fails returns
\* success = false with nothing received and nothing spent; every transfer
\* returns success with a placeholder identifier fixed by the action alone,
\* and the purchase handed to the transfer is a simulated fill.
C20_DryRunTouchesNoExchange ==
    config.dryRun =>
        /\ exchangeCalls = {}
        /\ \A p \in Procs :
               /\ pc[p] = "buy" =>
                      \A ex \in TradeAnswers(Action(p).amountInZAR) :
                          LET tr == buyWithZAR(Action(p).amountInZAR, ex)
                          IN  IF ex.priceOk
                              THEN SimulatedFill(tr, Action(p).amountInZAR)
                                   /\ tr.price = ex.price
                              ELSE ~tr.success /\ tr.cryptoReceived = 0
                                               /\ tr.zarSpent = 0
               /\ pc[p] = "transfer" =>
                      /\ SimulatedFill(tradeResult[p], Action(p).amountInZAR)
                      /\ \A xr \in TransferResults(Action(p)) :
                             xr.success /\ xr.transferId = Placeholder(Action(p))

\* a dry-run cycle has bought and transferred for one action and is about to
\* transfer for another
C20_Witness ==
    /\ config.dryRun
    /\ \E p \in Procs : pc[p] = "transfer"
    /\ ffPayments # <<>> \/ valrRepayments # <<>>

(***************************************************************************)
(* The registry alone: the document changes on disk and is reloaded.       *)
(***************************************************************************)
RawA == RawLoan(LoanA)

RawB == RawLoan(LoanB)

\* the obligations a document can spell
RawVariants ==
    {RawA, RawB,
     [RawB EXCEPT !.active = FALSE],
     Without(RawB, "active"),
     [RawB EXCEPT !.active = FALSE, !.principal = Num(0)],
     [RawB EXCEPT !.interestRate = Num(101)],
     [RawB EXCEPT !.interestRate = Num(0)],
     [RawA EXCEPT !.principal = Str("ten thousand")],
     Without(RawB, "name"),
     [RawB EXCEPT !.recipient = [type |-> "iban", value |-> "ZA00"]],
     [RawB EXCEPT !.recipient = [type |-> "email", value |-> ""]],
     [RawB EXCEPT !.startDate = Str("soon")],
     [RawB EXCEPT !.id = "A"]}

\* no file, no JSON, a broken schema, and lists of one or two obligations
Documents ==
    {NoFile, NotJson,
     Json([loans |-> Array(<<RawA>>)]),
     Json([version |-> "1.0"]),
     Json([version |-> "1.0", loans |-> [array |-> FALSE]]),
     Document(<<>>)}
        \cup {Document(<<v>>) : v \in RawVariants}
        \cup {Document(<<RawA, v>>) : v \in RawVariants}

\* the constructor calls loadLoans
LoadInit ==
    /\ configFile \in Documents
    /\ loans = loadLoans(configFile)
    /\ lastLoad = [file |-> configFile, before |-> <<>>]
    /\ config \in [minimumZARReserve : Reserves, dryRun : {FALSE}]
    /\ metricsLoans = <<>>
    /\ metricsAprs = <<>>
    /\ ffPayments = <<>>
    /\ executions = <<>>
    /\ valrRepayments = <<>>
    /\ now = 20
    /\ MonitorIdle
    /\ InitCycles

\* the document is edited on disk
WriteConfig ==
    /\ \E file \in Documents : configFile' = file
    /\ UNCHANGED <<response, sync, lastLoad, monitor, env, ledger, cycle, ghost, exchangeCalls, faults>>

\* reloadConfig: loadLoans reads the document
ReloadConfig ==
    /\ loans' = loadLoans(configFile)
    /\ lastLoad' = [file |-> configFile, before |-> loans]
    /\ UNCHANGED <<response, sync, configFile, monitor, config, metricsLoans, metricsAprs, now, ledger, cycle,
                   ghost, exchangeCalls, faults>>

LoadNext == WriteConfig \/ ReloadConfig

LoadSpec == LoadInit /\ [][LoadNext]_vars

\* the load that just returned had failed
LoadFailed(file) ==
    /\ file.exists
    /\ \/ ~file.parses
       \/ InvalidSchema(file.body)
       \/ \E i \in 1..Len(file.body.loans.items) :
              ~validateLoan(file.body.loans.items[i])

\* C21 as stated: when load or reload fails, the obligation set after the call
\* equals the set before the call; a failed reload never clears or replaces a
\* previously loaded set.
C21_Original ==
    LoadFailed(lastLoad.file) => loans = lastLoad.before

\* an obligation the registry may hold according to the claim
WellFormed(loan) ==
    /\ IsActive(loan)
    /\ JsGreater(loan.principal, 0)
    /\ ~IsNaN(loan.interestRate)
    /\ loan.interestRate.num >= 0 /\ loan.interestRate.num <= 100
    /\ loan.recipient.type \in validTypes
    /\ loan.recipient.value # ""
    /\ ~InvalidDate(loan.startDate)

Items(file) ==
    IF file.exists /\ file.parses /\ ~InvalidSchema(file.body)
    THEN file.body.loans.items
    ELSE <<>>

Range(s) == {s[i] : i \in 1..Len(s)}

\* C22 as stated: after any sequence of loads, every obligation of the active
\* set is active, has principal > 0, a rate in [0, 1], a recipient of a valid
\* kind with a non-empty value and a parseable start date; a document with one
\* invalid obligation contributes no obligation.
C22_Original ==
    /\ \A i \in 1..Len(loans) : WellFormed(loans[i])
    /\ (\E i \in 1..Len(Items(lastLoad.file)) : ~validateLoan(Items(lastLoad.file)[i]))
           => Range(loans) \subseteq Range(lastLoad.before)

(***************************************************************************)
(* getPaymentsDueThisMonth over registries, ledgers and days.              *)
(***************************************************************************)
\* a second obligation filed under the identifier of LoanA: validateLoan does
\* not compare identifiers
LoanTwin == [LoanB EXCEPT !.id = "A"]

DueRegistries ==
    {<<LoanA>>, <<LoanLate>>, <<LoanA, LoanB>>, <<LoanA, LoanLate>>, <<LoanA, LoanTwin>>}

DueDays == {5, 20, 30, 40}

\* payments are dated by the clock of the cycle that made them: none lies ahead
DueLedgers ==
    {<<>>, <<Paid("A", 0 - 45)>>, <<Paid("A", 0 - 15)>>, <<Paid("A", 0)>>,
     <<Paid("A", 5)>>, <<Paid("A", 25)>>, <<Paid("A", 0 - 45), Paid("A", 5)>>,
     <<Paid("B", 5)>>, <<Paid("A", 0), Paid("B", 5)>>}

DueInit ==
    /\ loans \in DueRegistries
    /\ Constructed(loans)
    /\ config \in [minimumZARReserve : PlanReserves, dryRun : {TRUE}]
    /\ metricsLoans \in {<<"BTC", "ETH">>}
    /\ metricsAprs \in {("BTC" :> 5) @@ ("ETH" :> 9)}
    /\ now \in DueDays
    /\ ffPayments \in {l \in DueLedgers : \A i \in 1..Len(l) : l[i].paymentDate <= now}
    /\ executions = <<>>
    /\ valrRepayments = <<>>
    /\ MonitorIdle
    /\ InitCycles

DueSpec == DueInit /\ [][PlanNext]_vars

\* the rule of the claim, read off the ledger
ClaimedDue(loan) ==
    LET dates == PaymentDates(ffPayments, loan.id)
    IN  \/ dates = {} /\ now - loan.startDate >= DueAfterDays
        \/ dates # {} /\ \A d \in dates : MonthStart(d) # MonthStart(now)
        \/ dates # {} /\ \A d \in dates : now - d >= DueAfterDays

RECURSIVE EntriesFor(_)
EntriesFor(lns) ==
    IF lns = <<>> THEN <<>> ELSE <<DuePayment(Head(lns), now)>> \o EntriesFor(Tail(lns))

C24_Original ==
    /\ \A j, k \in 1..Len(Due) : Due[j].loanId = Due[k].loanId => j = k
    /\ \A p \in Procs :
           Planned(p) =>
               \A j, k \in 1..Len(OfType(p, "FRIENDS_FAMILY")) :
                   OfType(p, "FRIENDS_FAMILY")[j].loanIdentifier
                       = OfType(p, "FRIENDS_FAMILY")[k].loanIdentifier => j = k

(***************************************************************************)
(* The metrics update alone: balances, stored transactions, ignore list.   *)
(***************************************************************************)
MonitorCurrencies == <<"BTC", "ETH", "ZAR">>

\* a balance per currency, or none: negative, zero or positive
BalanceChoices == [1..Len(MonitorCurrencies) -> {"none", "debt", "zero", "funds"}]

TotalOf(choice) == IF choice = "debt" THEN 0 - 2 ELSE IF choice = "zero" THEN 0 ELSE 3

RECURSIVE BalancesOf(_, _)
BalancesOf(choices, i) ==
    IF i > Len(MonitorCurrencies)
    THEN <<>>
    ELSE (IF choices[i] = "none"
          THEN <<>>
          ELSE <<[currency |-> MonitorCurrencies[i], total |-> TotalOf(choices[i])]>>)
             \o BalancesOf(choices, i + 1)

MonitorBalances == {BalancesOf(choices, 1) : choices \in BalanceChoices}

StoredTransactions ==
    <<WithTransferId(Credit(Tx("t1", "INTERNAL_TRANSFER"), "ZAR", 100), "x1"),
      Credit(Tx("t2", "INTERNAL_TRANSFER"), "ZAR", 50),
      WithTransferId(Credit(Tx("t3", "INTERNAL_TRANSFER"), "USDC", 7), "x3"),
      Tx("t4", "INTERNAL_TRANSFER"),
      WithTransferId(Credit(Tx("t5", "SIMPLE_BUY"), "ZAR", 9), "x5")>>

RECURSIVE Pick(_, _, _)
Pick(table, keep, i) ==
    IF i > Len(table)
    THEN <<>>
    ELSE (IF i \in keep THEN <<table[i]>> ELSE <<>>) \o Pick(table, keep, i + 1)

TransactionTables ==
    {Pick(StoredTransactions, keep, 1) : keep \in SUBSET (1..Len(StoredTransactions))}

IgnoreLists == {{}, {"x1"}, {"x3", "x5"}, {"none-such"}, {"x1", "none-such"}}

MonitorInit ==
    /\ loans \in Registries
    /\ Constructed(loans)
    /\ config \in [minimumZARReserve : Reserves, dryRun : {TRUE}]
    /\ metricsLoans = <<>>
    /\ metricsAprs = <<>>
    /\ ffPayments = <<>>
    /\ executions = <<>>
    /\ valrRepayments = <<>>
    /\ now = 20
    /\ principalBalances \in MonitorBalances
    /\ transactions \in TransactionTables
    /\ paymentIgnoreTransferIds \in IgnoreLists
    /\ InitCycles

\* detectLoansAndCalculateInterest: the positions are assigned
DetectPositions ==
    /\ pc["timer"] = "idle"
    /\ metrics' = [metrics EXCEPT !.loans = LoanPositions(principalBalances),
                                  !.collateral = CollateralPositions(principalBalances)]
    /\ metricsLoans' = Currencies(LoanPositions(principalBalances))
    /\ pc' = [pc EXCEPT !["timer"] = "detected"]
    /\ UNCHANGED <<response, sync, source, stored, exchangeCalls, loans, config, metricsAprs, now, ledger,
                   plan, idx, result, ret, executionId, tradeResult, ghost, faults>>

\* calculatePayments: the totals are assigned and the update is complete
CalculatePayments ==
    /\ pc["timer"] = "detected"
    /\ metrics' = [metrics EXCEPT !.totalPaymentsByCurrency =
                       calculatePayments(transactions, paymentIgnoreTransferIds)]
    /\ pc' = [pc EXCEPT !["timer"] = "updated"]
    /\ UNCHANGED <<response, sync, source, stored, exchangeCalls, env, ledger, plan, idx, result, ret,
                   executionId, tradeResult, ghost, faults>>

\* a request to the exchange throws: the update is abandoned
UpdateThrows ==
    /\ pc["timer"] = "detected"
    /\ pc' = [pc EXCEPT !["timer"] = "abandoned"]
    /\ UNCHANGED <<response, sync, source, monitor, exchangeCalls, env, ledger, plan, idx, result, ret,
                   executionId, tradeResult, ghost, faults>>

\* the timer fires again
NextUpdate ==
    /\ pc["timer"] \in {"updated", "abandoned"}
    /\ pc' = [pc EXCEPT !["timer"] = "idle"]
    /\ UNCHANGED <<response, sync, source, monitor, exchangeCalls, env, ledger, plan, idx, result, ret,
                   executionId, tradeResult, ghost, faults>>

MonitorNext == DetectPositions \/ CalculatePayments \/ UpdateThrows \/ NextUpdate

MonitorSpec == MonitorInit /\ [][MonitorNext]_vars

Updated == pc["timer"] = "updated"

\* the balances of a currency, as the exchange reports them
BalancesIn(currency) ==
    {principalBalances[i].total :
        i \in {k \in 1..Len(principalBalances) : principalBalances[k].currency = currency}}

Listed(positions, currency) ==
    {i \in 1..Len(positions) : positions[i].currency = currency}

AllCurrencies == {MonitorCurrencies[i] : i \in 1..Len(MonitorCurrencies)}

\* C25: after a successful update the loan list holds exactly the currencies
\* with a negative balance, with the absolute value as amount, the collateral
\* list exactly those with a positive balance, and no currency is in both lists
\* or, with a zero balance, in either.
C25_PositionsFollowBalanceSign ==
    Updated =>
        \A c \in AllCurrencies :
            /\ Listed(metrics.loans, c) # {} <=> \E b \in BalancesIn(c) : b < 0
            /\ \A i \in Listed(metrics.loans, c) :
                   \E b \in BalancesIn(c) : b < 0 /\ metrics.loans[i].amount = 0 - b
            /\ Listed(metrics.collateral, c) # {} <=> \E b \in BalancesIn(c) : b > 0
            /\ \A i \in Listed(metrics.collateral, c) :
                   metrics.collateral[i].amount \in BalancesIn(c)
            /\ Cardinality(Listed(metrics.loans, c)) + Cardinality(Listed(metrics.collateral, c)) <= 1
            /\ BalancesIn(c) = {0} =>
                   Listed(metrics.loans, c) = {} /\ Listed(metrics.collateral, c) = {}

\* an update is complete over a debt, a zero balance and funds
C25_Witness ==
    /\ Updated
    /\ BalancesIn("BTC") = {0 - 2}
    /\ BalancesIn("ETH") = {0}
    /\ BalancesIn("ZAR") = {3}
    /\ metrics.loans = <<Position("BTC", 2)>>

\* the stored rows the claim counts for a currency
Counted(currency) ==
    {i \in 1..Len(transactions) :
        /\ transactions[i].transactionType = "INTERNAL_TRANSFER"
        /\ "creditCurrency" \in DOMAIN transactions[i]
        /\ transactions[i].creditCurrency = currency
        /\ ~("transferId" \in DOMAIN transactions[i]
                 /\ transactions[i].transferId \in paymentIgnoreTransferIds)}

RECURSIVE SumCredit(_)
SumCredit(rows) ==
    IF rows = {}
    THEN 0
    ELSE LET i == CHOOSE k \in rows : TRUE
         IN  transactions[i].creditValue + SumCredit(rows \ {i})

StoredTransferIds ==
    {transactions[i].transferId :
        i \in {k \in 1..Len(transactions) : "transferId" \in DOMAIN transactions[k]}}

PaidCurrencies == {"ZAR", "USDC", "BTC"}

\* C26: total payments are the per-currency sums of the credit values of the
\* stored INTERNAL_TRANSFER credits whose transferId is not in the ignore list;
\* a row without transferId is always counted, and an ignore entry that matches
\* no stored row changes nothing.
C26_TotalPaymentsSkipIgnored ==
    Updated =>
        /\ \A c \in PaidCurrencies :
               IF Counted(c) = {}
               THEN c \notin DOMAIN metrics.totalPaymentsByCurrency
               ELSE /\ c \in DOMAIN metrics.totalPaymentsByCurrency
                    /\ metrics.totalPaymentsByCurrency[c] = SumCredit(Counted(c))
        /\ DOMAIN metrics.totalPaymentsByCurrency \subseteq PaidCurrencies
        /\ metrics.totalPaymentsByCurrency =
               calculatePayments(transactions,
                                 paymentIgnoreTransferIds \cap StoredTransferIds)

\* an update is complete over an ignored transfer, a transfer without
\* identifier and an ignore entry that matches nothing
C26_Witness ==
    /\ Updated
    /\ paymentIgnoreTransferIds = {"x1", "none-such"}
    /\ transactions = StoredTransactions
    /\ metrics.totalPaymentsByCurrency = ("USDC" :> 7) @@ ("ZAR" :> 50)

(***************************************************************************)
(* Actual and planned amounts.                                             *)
(***************************************************************************)
RECURSIVE SumAmountZAR(_)
SumAmountZAR(rows) ==
    IF rows = <<>> THEN 0 ELSE Head(rows).amountZAR + SumAmountZAR(Tail(rows))

\* the purchases that can have preceded a payment row of an action
Fills(action) == {tr \in TradeResults(action.amountInZAR) : tr.success}

\* C27 as stated: within a cycle the amounts written to the payment and
\* repayment records are those the trade returned, and the total fiat spent of
\* the cycle, as written to the Execution Record, is the sum of the fiat the
\* trades actually spent.  Read in the first cycle, whose rows are all its own.
C27_Original ==
    started = 1 =>
        \A p \in Procs :
            Executing(p) =>
                /\ \A i \in 1..Len(ffPayments) :
                       \E k \in 1..Len(plan[p].payments) :
                           \E tr \in Fills(plan[p].payments[k]) :
                               /\ plan[p].payments[k].loanIdentifier = ffPayments[i].loanId
                               /\ ffPayments[i].amountZAR = tr.zarSpent
                               /\ ffPayments[i].cryptoAmount = tr.cryptoReceived
                /\ \A i \in 1..Len(valrRepayments) :
                       \E k \in 1..Len(plan[p].payments) :
                           \E tr \in Fills(plan[p].payments[k]) :
                               /\ plan[p].payments[k].currency = valrRepayments[i].currency
                               /\ valrRepayments[i].amountZAR = tr.zarSpent
                               /\ valrRepayments[i].amount = tr.cryptoReceived
                /\ result[p].totalZARSpent
                       = SumAmountZAR(ffPayments) + SumAmountZAR(valrRepayments)
                /\ \A k \in 1..Len(executions) :
                       executions[k].actionsExecuted > 0 =>
                           executions[k].totalZARSpent
                               = SumAmountZAR(ffPayments) + SumAmountZAR(valrRepayments)

(***************************************************************************)
(* Paying an obligation twice.                                             *)
(***************************************************************************)
\* two payment rows that one due date cannot explain: same obligation, same
\* calendar month, less than 30 days apart
PaidTwice(i, j) ==
    /\ i # j
    /\ ffPayments[i].loanId = ffPayments[j].loanId
    /\ MonthStart(ffPayments[i].paymentDate) = MonthStart(ffPayments[j].paymentDate)
    /\ Abs(ffPayments[i].paymentDate - ffPayments[j].paymentDate) < DueAfterDays

\* C28 as stated: when two cycles overlap, each due obligation is still bought
\* for and transferred at most once: no interleaving makes both cycles pay the
\* same due obligation.
C28_Original ==
    ~config.dryRun => \A i, j \in 1..Len(ffPayments) : ~PaidTwice(i, j)

\* C29 as stated: a cycle run in dry-run mode appends no Obligation Payment
\* record, so the obligations reported as due are those of the untouched ledger.
C29_Original ==
    config.dryRun =>
        /\ ffPayments = <<>>
        /\ Due = getPaymentsDueThisMonth(loans, <<>>, now)

(***************************************************************************)
(* Cycles one after the other, with the days passing.                      *)
(***************************************************************************)
SerialNext == ExecNext \/ Tick

SerialSpec == ExecInit /\ [][SerialNext]_vars

\* a payment of the obligation made this calendar month, less than 30 days ago
PaidLately(loanId) ==
    \E i \in 1..Len(ffPayments) :
        /\ ffPayments[i].loanId = loanId
        /\ MonthStart(ffPayments[i].paymentDate) = MonthStart(now)
        /\ now - ffPayments[i].paymentDate < DueAfterDays

\* the actions of the running cycle that are not completed yet
Pending(p) ==
    IF pc[p] \in {"buy", "transfer"} THEN idx[p]..Len(plan[p].payments) ELSE {}

\* C30: once a cycle has paid an obligation, a following cycle that runs in the
\* same calendar month and less than 30 days later plans no action for it;
\* cycles run one after the other never pay the same obligation twice.
C30_PaidObligationNotPlannedAgain ==
    /\ \A p \in Procs :
           \A k \in Pending(p) :
               plan[p].payments[k].type = "FRIENDS_FAMILY"
                   => ~PaidLately(plan[p].payments[k].loanIdentifier)
    /\ \A i, j \in 1..Len(ffPayments) : ~PaidTwice(i, j)

\* the second cycle executes its plan on the day the first one paid A, and the
\* plan has no action for A
C30_Witness ==
    /\ started = 2
    /\ pc["manual"] \in {"buy", "transfer"}
    /\ PaidLately("A")
    /\ \A k \in 1..Len(plan["manual"].payments) :
           plan["manual"].payments[k].loanIdentifier # "A"

(***************************************************************************)
(* The distance between two payments of one obligation.                    *)
(***************************************************************************)
DaysApart(i, j) == Abs(ffPayments[i].paymentDate - ffPayments[j].paymentDate)

SameObligation(i, j) == i # j /\ ffPayments[i].loanId = ffPayments[j].loanId

\* C31 as stated: over cycles run one after the other, two payments of the
\* same obligation are never recorded less than 30 days apart, also around the
\* first day of a calendar month (read here for cycles in live mode).
C31_Original ==
    ~config.dryRun =>
        \A i, j \in 1..Len(ffPayments) :
            SameObligation(i, j) => DaysApart(i, j) >= DueAfterDays

\* the payment rows a step appends to ff_payments
Recorded == {ffPayments'[k] : k \in (Len(ffPayments) + 1)..Len(ffPayments')}

\* C31: over cycles run one after the other, a payment recorded for an
\* obligation lies at least 30 days after every earlier payment of that
\* obligation, or in a later calendar month than it; two payments on either
\* side of the first day of a month can be closer than 30 days.
C31_PaymentsApartWithinMonth ==
    [][\A row \in Recorded :
           \A i \in 1..Len(ffPayments) :
               ffPayments[i].loanId = row.loanId
                   => \/ row.paymentDate - ffPayments[i].paymentDate >= DueAfterDays
                      \/ MonthStart(row.paymentDate) > MonthStart(ffPayments[i].paymentDate)]_vars

\* in live mode A is paid on day 20 and again on day 40, after the first day
\* of the next month (day 31)
C31_Witness ==
    /\ ~config.dryRun
    /\ \E i, j \in 1..Len(ffPayments) :
           /\ SameObligation(i, j)
           /\ ffPayments[i].loanId = "A"
           /\ ffPayments[i].paymentDate = 20
           /\ ffPayments[j].paymentDate = 40
           /\ MonthStart(20) # MonthStart(40)

(***************************************************************************)
(* RetrySpec: the cycles of one trigger that keeps calling                 *)
(* executeRepaymentCycle, as the interval timer does, one cycle after the  *)
(* other, with a Market Access whose failures pass: a purchase, a          *)
(* transfer or a balance read can fail, and the funds can fall short, in a *)
(* cycle that is followed by another one; the last cycle stands for the    *)
(* cycles from the time the exchange answers.  A ledger call can fail in   *)
(* any cycle.                                                              *)
(***************************************************************************)
RetryInit ==
    /\ loans \in Registries
    /\ Constructed(loans)
    /\ config \in [minimumZARReserve : Reserves, dryRun : BOOLEAN]
    /\ metricsLoans \in MetricsLoanLists
    /\ metricsAprs \in MetricsAprMaps
    /\ ffPayments = <<>>
    /\ executions = <<>>
    /\ valrRepayments = <<>>
    /\ now = 20
    /\ MonitorIdle
    /\ InitCycles

Followed == started < MaxCycles

\* the steps of a cycle in which the exchange fails or the funds fall short
FailingStep(p) ==
    /\ Followed
    /\ \/ PlanSkipped(p)
       \/ BuyFails(p)
       \/ TransferFails(p)

\* the steps of a cycle in which a ledger call of the planning fails
LedgerStep(p) ==
    \/ PlanFails(p)
    \/ PlanNotRecorded(p)

\* the steps of a cycle in which the exchange answers
PassingStep(p) ==
    \/ PlanExecuted(p)
    \/ BuySucceeds(p)
    \/ TransferSucceeds(p)

RetryStep(p) ==
    \/ BeginCycle(p)
    \/ FailingStep(p)
    \/ LedgerStep(p)
    \/ PassingStep(p)
    \/ Return(p)

RetryNext == RetryStep("manual") \/ Tick

RetrySpec == RetryInit /\ [][RetryNext]_vars /\ WF_vars(RetryStep("manual"))

\* the obligation of the registry is due on the ledger as it stands
DueNow(loanId) ==
    /\ getLoan(loans, loanId) # Null
    /\ isDue(getLoan(loans, loanId), ffPayments, now)

PaymentRecorded(loanId) ==
    \E i \in 1..Len(ffPayments) : ffPayments[i].loanId = loanId

\* the obligation action of p fails in this step: its error joins the list
ObligationActionFails(p) ==
    /\ pc[p] \in {"buy", "transfer"}
    /\ Action(p).type = "FRIENDS_FAMILY"
    /\ Len(result'[p].errors) > Len(result[p].errors)

\* p receives its plan in this step, and the plan can be executed
PlansExecutable(p) ==
    /\ pc[p] = "planning"
    /\ plan'[p] # plan[p]
    /\ plan'[p].canExecute

LoanIds == {LoanA.id, LoanB.id}

C33_Original ==
    \A p \in Procs :
        Planned(p) => plan[p].totalZARNeeded = SumZAR(plan[p].payments)

(***************************************************************************)
(* getRepaymentStats: the aggregate over table repayment_executions.       *)
(***************************************************************************)
\* SUM(CASE WHEN success = ? THEN 1 ELSE 0 END)
CountRows(table, flag) == Cardinality({i \in 1..Len(table) : table[i].success = flag})

RECURSIVE SumSpent(_)
SumSpent(table) ==
    IF table = <<>> THEN 0 ELSE Head(table).totalZARSpent + SumSpent(Tail(table))

\* successRate in whole percent
getRepaymentStats(table) ==
    LET total_executions == Len(table)
        success_count == CountRows(table, TRUE)
        failure_count == CountRows(table, FALSE)
    IN  [totalExecutions |-> total_executions,
         successCount |-> success_count,
         failureCount |-> failure_count,
         totalZARSpent |-> SumSpent(table),
         successRate |-> IF total_executions > 0
                         THEN (success_count * 100) \div total_executions
                         ELSE 0]

\* no cycle is between its call and its return
NoCycleRunning == \A p \in Procs : pc[p] \notin {"planning", "buy", "transfer"}

\* C34 as stated: after any sequence of cycles getRepaymentStats reports
\* totalExecutions = the number of cycles run, successCount and failureCount
\* = the numbers of cycles whose final success flag is true and false, and
\* successRate = successCount / totalExecutions * 100; the flags are compared
\* after the first cycle, whose result the caller still holds (read here for
\* the cycles in which no ledger call failed).
C34_Original ==
    (NoCycleRunning /\ faults = 0) =>
        LET stats == getRepaymentStats(executions)
        IN  /\ stats.totalExecutions = started
            /\ stats.successCount + stats.failureCount = started
            /\ \A p \in Procs :
                   (started = 1 /\ pc[p] = "returned") =>
                       /\ stats.successCount = (IF ret[p].success THEN 1 ELSE 0)
                       /\ stats.failureCount = (IF ret[p].success THEN 0 ELSE 1)
            /\ stats.totalExecutions > 0 =>
                   stats.successRate
                       = (stats.successCount * 100) \div stats.totalExecutions

(***************************************************************************)
(* A cycle whose balance read fails.                                       *)
(***************************************************************************)
\* getBalance('ZAR') throws: the request to the exchange failed
FailedRead == [ok |-> FALSE, total |-> 0]

\* the plan of p was built on a failed balance read: every read that answers
\* reports a positive total
ReadFailed(p) == plan[p] # NoPlan /\ plan[p].totalZARAvailable = 0

\* C35 as stated: when the balance read fails the planner takes the available
\* fiat as 0, the cycle is skipped for insufficient funds without a purchase
\* or a transfer, and it is recorded and returned with success = true.
C35_Original ==
    \A p \in Procs :
        (Returned(p) /\ ReadFailed(p)) =>
            /\ ~plan[p].canExecute
            /\ buys[p] = <<>>
            /\ xfers[p] = <<>>
            /\ execWrites[p] = 1
            /\ ret[p].success

\* C35: when the balance read fails the planner takes the available fiat as
\* 0 and returns the plan that is skipped for the reserve, with no action;
\* the cycle invokes no purchase and no transfer; it is recorded once and
\* returned with success = true when the ledger accepts the skip record, and
\* returned with success = false, and not recorded, when that write fails.
C35_FailedReadSkipsCycle ==
    /\ getAvailableZAR(FailedRead) = 0
    /\ PlanOf(FailedRead) =
           [totalZARAvailable |-> 0, totalZARNeeded |-> 0, canExecute |-> FALSE,
            payments |-> <<>>, skippedReason |-> "Insufficient ZAR after reserve"]
    /\ \A p \in Procs :
           ReadFailed(p) =>
               /\ plan[p] = PlanOf(FailedRead)
               /\ pc[p] = "returned"
               /\ buys[p] = <<>>
               /\ xfers[p] = <<>>
               /\ ret[p].actionsPlanned = 0
               /\ ret[p].success <=> execWrites[p] = 1
               /\ ret[p].success =>
                      \E k \in 1..Len(executions) :
                          IsSkipRecord(executions[k], plan[p])

\* a cycle is returned as skipped and successful after a failed balance read
\* although an obligation is due
C35_Witness ==
    \E p \in Procs :
        /\ Returned(p)
        /\ ReadFailed(p)
        /\ Due # <<>>
        /\ ret[p].success
        /\ execWrites[p] = 1
        /\ exchangeCalls = {}

(***************************************************************************)
(* The due entry and the action of an obligation.                          *)
(***************************************************************************)
\* the obligations of the registry that are due, in registry order
DueLoans == SelectSeq(loans, LAMBDA loan : isDue(loan, ffPayments, now))

\* C36 as stated: for every obligation the due entry and the priority-1
\* action built from it have fiat amount principal * rate / 12 (12000 at 12
\* percent gives 120), kind INTEREST, and the settlement currency and the
\* recipient of the obligation itself.
C36_Original ==
    /\ calculateMonthlyInterest(LoanA) = 120
    /\ Len(Due) = Len(DueLoans)
    /\ \A k \in 1..Len(DueLoans) :
           /\ Due[k].loanId = DueLoans[k].id
           /\ Due[k].amountZAR = (DueLoans[k].principal * DueLoans[k].ratePct) \div 1200
           /\ Due[k].type = "INTEREST"
           /\ Due[k].cryptoCurrency = DueLoans[k].cryptoPreference
    /\ \A p \in Procs :
           (Planned(p) /\ plan[p].payments # <<>>) =>
               \A k \in 1..Len(DueLoans) :
                   LET action == plan[p].payments[k]
                   IN  /\ action.priority = 1
                       /\ action.type = "FRIENDS_FAMILY"
                       /\ action.loanIdentifier = DueLoans[k].id
                       /\ action.amountInZAR
                              = (DueLoans[k].principal * DueLoans[k].ratePct) \div 1200
                       /\ action.currency = DueLoans[k].cryptoPreference
                       /\ action.recipientType = DueLoans[k].recipient.type
                       /\ action.recipientValue = DueLoans[k].recipient.value
                       /\ action.recipientName = DueLoans[k].name

(***************************************************************************)
(* PageSpec: syncs of the transaction history, one after the other; the    *)
(* exchange answers every page request, with any page or with an error.    *)
(***************************************************************************)
\* the event time handed over by fetchAndStoreNewTransactions
StartTimes == {Null, [none |-> FALSE, date |-> 10]}

\* the pages the exchange can return: empty, short or full, with none, some
\* or all of the transactions older than startTime
PageLengths == {0, 120, PageLimit}

Pages ==
    {page \in [length : PageLengths, older : {0, 1, PageLimit}] :
         page.older <= page.length}

\* INSERT OR IGNORE: rows already stored are not counted
StoredCounts(page, start) == {0, Filtered(page, start)}

PageInit ==
    /\ loans \in Registries
    /\ Constructed(loans)
    /\ config \in [minimumZARReserve : Reserves, dryRun : BOOLEAN]
    /\ metricsLoans = <<>>
    /\ metricsAprs = <<>>
    /\ ffPayments = <<>>
    /\ executions = <<>>
    /\ valrRepayments = <<>>
    /\ now = 20
    /\ MonitorIdle
    /\ InitCycles

\* fetchAndStoreNewTransactions calls the loop: the first page is requested
FetchStart ==
    /\ fetchPc = "idle"
    /\ \E start \in StartTimes : startTime' = start
    /\ skip' = 0
    /\ hasMore' = TRUE
    /\ totalFetched' = 0
    /\ newTransactionsStored' = 0
    /\ pageRequests' = 1
    /\ fetchPc' = "request"
    /\ UNCHANGED <<response, source, monitor, exchangeCalls, env, ledger, cycle, ghost, faults>>

\* getTransactionHistory returns a page: one iteration, up to the next await
PageReturned ==
    /\ fetchPc = "request"
    /\ \E page \in Pages :
           IF EmptyPage(page)
           THEN /\ hasMore' = FALSE
                /\ fetchPc' = "done"
                /\ UNCHANGED <<skip, totalFetched, newTransactionsStored, pageRequests>>
           ELSE /\ \E inserted \in StoredCounts(page, startTime) :
                       newTransactionsStored' = newTransactionsStored + inserted
                /\ totalFetched' = totalFetched + page.length
                /\ skip' = skip + PageLimit
                /\ hasMore' = HasMoreAfter(page, startTime, skip + PageLimit)
                /\ IF HasMoreAfter(page, startTime, skip + PageLimit)
                   THEN /\ fetchPc' = "request"
                        /\ pageRequests' = pageRequests + 1
                   ELSE /\ fetchPc' = "done"
                        /\ pageRequests' = pageRequests
    /\ UNCHANGED <<response, startTime, source, monitor, exchangeCalls, env, ledger, cycle, ghost, faults>>

\* getTransactionHistory or storeTransactions throws: the loop is left
FetchThrows ==
    /\ fetchPc = "request"
    /\ fetchPc' = "failed"
    /\ UNCHANGED <<response, startTime, skip, hasMore, totalFetched, newTransactionsStored,
                   pageRequests, source, monitor, exchangeCalls, env, ledger, cycle,
                   ghost, faults>>

\* the caller has the outcome; the locals are gone
FetchReturn ==
    /\ fetchPc \in {"done", "failed"}
    /\ fetchPc' = "idle"
    /\ startTime' = Null
    /\ skip' = 0
    /\ hasMore' = FALSE
    /\ totalFetched' = 0
    /\ newTransactionsStored' = 0
    /\ pageRequests' = 0
    /\ UNCHANGED <<response, source, monitor, exchangeCalls, env, ledger, cycle, ghost, faults>>

PageNext == FetchStart \/ PageReturned \/ FetchThrows \/ FetchReturn

PageStep == PageReturned \/ FetchThrows

PageSpec == PageInit /\ [][PageNext]_vars /\ WF_vars(PageStep)

MaxPageRequests == SafetyLimit \div PageLimit

RECURSIVE Stars(_)
Stars(n) == IF n <= 0 THEN "" ELSE "*" \o Stars(n - 1)

\* the last visibleChars characters stay, the others become '*'; a value no
\* longer than visibleChars is masked whole
maskString(value, visibleChars) ==
    IF value = "" \/ Len(value) <= visibleChars
    THEN Stars(Len(value))
    ELSE Stars(Len(value) - visibleChars)
             \o SubSeq(value, Len(value) - visibleChars + 1, Len(value))

maskName(name) == maskString(name, 3)

maskContact(contact) == maskString(contact, 4)

\* summary.loan.notes is truthy
HasNotes(loan) == "notes" \in DOMAIN loan /\ loan.notes # ""

\* notes: undefined is left out of the JSON text
sanitizeFFLoanSummary(summary) ==
    LET masked == [summary.loan EXCEPT
                       !.name = maskName(@),
                       !.recipient = [@ EXCEPT !.value = maskContact(@)]]
    IN  [summary EXCEPT
             !.loan = IF HasNotes(summary.loan)
                      THEN [masked EXCEPT !.notes = "[REDACTED]"]
                      ELSE Without(masked, "notes")]

sanitizeFFLoanSummaries(summaries) ==
    [i \in 1..Len(summaries) |-> sanitizeFFLoanSummary(summaries[i])]

\* COALESCE(SUM(amount_zar), 0) WHERE loan_id = ? AND payment_type = ?
RECURSIVE SumPaid(_, _, _)
SumPaid(table, loanId, type) ==
    IF table = <<>>
    THEN 0
    ELSE (IF Head(table).loanId = loanId /\ Head(table).type = type
          THEN Head(table).amountZAR
          ELSE 0) + SumPaid(Tail(table), loanId, type)

getFFTotalInterestPaid(table, loanId) == SumPaid(table, loanId, "INTEREST")

getFFTotalPrincipalPaid(table, loanId) == SumPaid(table, loanId, "PRINCIPAL")

getLoanSummaries(lns, table, t) ==
    [i \in 1..Len(lns) |->
        LET loan == lns[i]
            lastPaymentDate == getFFLastPaymentDate(table, loan.id)
        IN  [loan |-> loan,
             totalInterestPaid |-> getFFTotalInterestPaid(table, loan.id),
             totalPrincipalPaid |-> getFFTotalPrincipalPaid(table, loan.id),
             monthlyInterestDue |-> calculateMonthlyInterest(loan),
             lastPaymentDate |-> lastPaymentDate,
             daysSinceLastPayment |-> IF lastPaymentDate.none
                                      THEN t - loan.startDate
                                      ELSE t - lastPaymentDate.date,
             paymentsThisMonth |-> Len(getFFPaymentsThisMonth(table, loan.id, t))]]

getFFLoanSummaries == getLoanSummaries(loans, ffPayments, now)

\* ORDER BY execution_date DESC LIMIT ?: the rows are stored in date order
RECURSIVE getRepaymentHistory(_, _)
getRepaymentHistory(table, limit) ==
    IF table = <<>> \/ limit = 0
    THEN <<>>
    ELSE <<table[Len(table)]>>
             \o getRepaymentHistory(SubSeq(table, 1, Len(table) - 1), limit - 1)

\* numbers.reduce((sum, n) => sum + n, 0)
RECURSIVE SumOver(_)
SumOver(numbers) ==
    IF numbers = <<>> THEN 0 ELSE Head(numbers) + SumOver(Tail(numbers))

\* response.repayment of GET /status
StatusBody(ffSummaries) ==
    [repayment |->
        [enabled |-> TRUE,
         dryRun |-> config.dryRun,
         config |-> [minimumZARReserve |-> config.minimumZARReserve],
         friendsFamilyLoans |->
             [count |-> Len(ffSummaries),
              totalPrincipal |->
                  SumOver([i \in 1..Len(ffSummaries) |-> ffSummaries[i].loan.principal]),
              totalMonthlyObligation |->
                  SumOver([i \in 1..Len(ffSummaries) |-> ffSummaries[i].monthlyInterestDue]),
              totalInterestPaid |->
                  SumOver([i \in 1..Len(ffSummaries) |-> ffSummaries[i].totalInterestPaid]),
              loans |-> ffSummaries],
         executionHistory |-> getRepaymentHistory(executions, 10),
         stats |-> getRepaymentStats(executions)]]

RepaymentStatusBody(ffSummaries) ==
    [enabled |-> TRUE,
     dryRun |-> config.dryRun,
     minimumZARReserve |-> config.minimumZARReserve,
     friendsFamilyLoans |-> ffSummaries]

Paths == {"/status", "/repayment/status"}

\* app.get('/status'): the handler is synchronous
GetStatus ==
    /\ response' = [path |-> "/status", status |-> 200,
                    body |-> StatusBody(getFFLoanSummaries)]
    /\ UNCHANGED <<sync, source, monitor, exchangeCalls, env, ledger, cycle, ghost, faults>>

\* app.get('/repayment/status')
GetRepaymentStatus ==
    /\ response' = [path |-> "/repayment/status", status |-> 200,
                    body |-> RepaymentStatusBody(getFFLoanSummaries)]
    /\ UNCHANGED <<sync, source, monitor, exchangeCalls, env, ledger, cycle, ghost, faults>>

\* a ledger query of the handler throws: the framework answers 500
RequestFails ==
    /\ faults < MaxFaults
    /\ faults' = faults + 1
    /\ \E path \in Paths : response' = [path |-> path, status |-> 500, body |-> <<>>]
    /\ UNCHANGED <<sync, source, monitor, exchangeCalls, env, ledger, cycle, ghost>>

(***************************************************************************)
(* StatusSpec: the cycles of one trigger, the clock, and the two status    *)
(* requests at any moment between the steps.                               *)
(***************************************************************************)
LoanNoted ==
    [id |-> "J", name |-> "Joanna", principal |-> 12000, ratePct |-> 12,
     startDate |-> 0 - 30, cryptoPreference |-> "USDC", active |-> TRUE,
     recipient |-> [type |-> "email", value |-> "jo@example.org"],
     notes |-> "paid in cash before"]

\* notes present and empty
LoanBlankNotes == [LoanNoted EXCEPT !.id = "K", !.name = "Al", !.notes = ""]

StatusRegistries == {<<LoanA>>, <<LoanNoted>>, <<LoanBlankNotes>>}

StatusInit ==
    /\ loans \in StatusRegistries
    /\ Constructed(loans)
    /\ config \in [minimumZARReserve : Reserves, dryRun : BOOLEAN]
    /\ metricsLoans \in MetricsLoanLists
    /\ metricsAprs \in MetricsAprMaps
    /\ ffPayments = <<>>
    /\ executions = <<>>
    /\ valrRepayments = <<>>
    /\ now = 20
    /\ MonitorIdle
    /\ InitCycles

StatusNext ==
    \/ ExecNext
    \/ Tick
    \/ GetStatus
    \/ GetRepaymentStatus
    \/ RequestFails

StatusSpec == StatusInit /\ [][StatusNext]_vars

\* the summaries a response carries
Sent ==
    IF response.path = "/status"
    THEN response.body.repayment.friendsFamilyLoans.loans
    ELSE response.body.friendsFamilyLoans

Answered == response.path \in Paths /\ response.status = 200

\* the summary is what sanitizeFFLoanSummary makes of the summary of loan
Sanitized(summary, loan) ==
    summary = sanitizeFFLoanSummary([summary EXCEPT !.loan = loan])

\* C38: the names, recipient values and notes of the obligations leave the
\* process through GET /status and GET /repayment/status only in sanitized
\* form: every summary of an answer carries the name masked to its last 3
\* characters, the recipient value masked to its last 4 characters and the
\* notes redacted.
C38_Original ==
    Answered =>
        /\ Len(Sent) = Len(loans)
        /\ \A i \in 1..Len(Sent) : Sanitized(Sent[i], loans[i])
====
